---- MODULE Spec2Model ----
(***************************************************************************)
(* Query-understanding core of the Bazaar plugin (src/main.py): the alias  *)
(* store with its two persistence back ends, the vocabulary index, the     *)
(* tokenizer and the alias resolver.                                       *)
(*                                                                         *)
(* A Python str is a sequence of characters.  A character is a one-element *)
(* TLA+ string for ASCII ("a", "A", " ", ":") and a pinyin syllable for a  *)
(* CJK ideograph ("huang" "jin" for the two ideographs of the tier name    *)
(* that TIER_MAP maps to Gold).  A Python dict is a sequence of            *)
(* <<key, value>> pairs with distinct keys, in insertion order.            *)
(***************************************************************************)
EXTENDS Integers, Sequences, FiniteSets, TLC

\* ------------------------------------------------------------------ bounds
\* Largest number of alias entries the in-memory map holds over all categories.
MaxAliases == 2
\* Latest time on the clock, which every alias mutation and every external
\* edit advances: bounds the number of changes in one behaviour.
MaxClock == 3

\* Longest query made of the letters of QueryLetters that is tokenized.
MaxQueryLen == 4
\* Most pieces one decomposition collects before the model stops following it.
MaxExtracted == 8
\* Longest run of free candidates at the head of a result list.
MaxPrefix == 2
\* Longest run of equal candidates that ends a result list.
MaxFill == 16
\* Largest limit a suggestion call is given.
MaxLimit == 3
\* The longest string the edit distance is computed on
MaxWordLen == 3
\* The longer time to live a cached request is made with, in clock ticks
MaxTtl == 2

\* ----------------------------------------------------------------- strings
Range(s) == {s[i] : i \in 1..Len(s)}

\* str.lower() on one character; an ideograph has no case.
LowerChar(c) ==
  CASE c = "A" -> "a" [] c = "B" -> "b" [] c = "C" -> "c" [] c = "D" -> "d"
    [] c = "E" -> "e" [] c = "F" -> "f" [] c = "G" -> "g" [] c = "H" -> "h"
    [] c = "I" -> "i" [] c = "J" -> "j" [] c = "K" -> "k" [] c = "L" -> "l"
    [] c = "M" -> "m" [] c = "N" -> "n" [] c = "O" -> "o" [] c = "P" -> "p"
    [] c = "Q" -> "q" [] c = "R" -> "r" [] c = "S" -> "s" [] c = "T" -> "t"
    [] c = "U" -> "u" [] c = "V" -> "v" [] c = "W" -> "w" [] c = "X" -> "x"
    [] c = "Y" -> "y" [] c = "Z" -> "z"
    [] OTHER -> c

\* str.lower()
Lower(s) == [i \in 1..Len(s) |-> LowerChar(s[i])]

\* str.strip(): drops leading and trailing whitespace.
RECURSIVE LStrip(_)
LStrip(s) == IF s # <<>> /\ Head(s) = " " THEN LStrip(Tail(s)) ELSE s
RECURSIVE RStrip(_)
RStrip(s) ==
  IF s # <<>> /\ s[Len(s)] = " " THEN RStrip(SubSeq(s, 1, Len(s) - 1)) ELSE s
Strip(s) == RStrip(LStrip(s))

\* s[n:] for 0 <= n
Drop(s, n) == SubSeq(s, n + 1, Len(s))

\* s.startswith(t)
StartsWith(s, t) == Len(t) <= Len(s) /\ SubSeq(s, 1, Len(t)) = t

\* s.find(t): the lowest 0-based index where t occurs in s, or -1.
Find(s, t) ==
  LET hits == {i \in 0..(Len(s) - Len(t)) : SubSeq(s, i + 1, i + Len(t)) = t}
  IN  IF hits = {} THEN -1 ELSE CHOOSE i \in hits : \A j \in hits : i <= j

\* t in s
Contains(s, t) == Find(s, t) >= 0

\* U+4E00 <= c <= U+9FFF: the ideographs are the characters written as a
\* pinyin syllable.
CJKChars ==
  {"du", "li", "zhong", "xing", "zhuo", "shao", "zhi", "jian", "huo", "ling",
   "tong", "qing", "yin", "bai", "jin", "huang", "zuan", "shi", "chuan", "qi",
   "biao", "qian", "pin", "zhi4", "ying", "xiong", "chi", "cun", "wu", "qi4",
   "xiao"}
IsCJK(c) == c \in CJKChars

\* -------------------------------------------------------------------- dict
DictKeys(d) == [i \in 1..Len(d) |-> d[i][1]]
DictHas(d, k) == \E i \in 1..Len(d) : d[i][1] = k
\* d.get(k, dflt)
DictGet(d, k, dflt) ==
  IF DictHas(d, k) THEN d[CHOOSE i \in 1..Len(d) : d[i][1] = k][2] ELSE dflt
\* d[k] = v: an existing key keeps its position, a new key goes last.
DictSet(d, k, v) ==
  IF DictHas(d, k)
  THEN [i \in 1..Len(d) |-> IF d[i][1] = k THEN <<k, v>> ELSE d[i]]
  ELSE Append(d, <<k, v>>)
\* d.pop(k)
DictPop(d, k) == SelectSeq(d, LAMBDA e : e[1] # k)
\* Dict equality (==) ignores insertion order.
DictEq(d, e) == Range(d) = Range(e)

\* s.split(sep) for a non-empty separator
RECURSIVE Split(_, _)
Split(s, sep) ==
  LET i == Find(s, sep)
  IN  IF i < 0 THEN <<s>>
      ELSE <<SubSeq(s, 1, i)>> \o Split(Drop(s, i + Len(sep)), sep)

\* The concatenation of the sequences of ss, in order.
RECURSIVE Concat(_)
Concat(ss) == IF ss = <<>> THEN <<>> ELSE Head(ss) \o Concat(Tail(ss))

\* Assigning the pairs of kvs to d, one after the other: a key stands where
\* it was first assigned and holds the value assigned to it last.
DictSetAll(d, kvs) ==
  LET all == d \o kvs
      n == Len(all)
      firsts == SelectSeq([i \in 1..n |-> i],
                          LAMBDA i : \A j \in 1..(i - 1) : all[j][1] # all[i][1])
      LastOf(k) == CHOOSE i \in 1..n :
                     all[i][1] = k /\ \A j \in (i + 1)..n : all[j][1] # k
  IN  [m \in 1..Len(firsts) |->
         <<all[firsts[m]][1], all[LastOf(all[firsts[m]][1])][2]>>]

\* --------------------------------------------------------------- constants
ALIAS_CATEGORIES == <<"hero", "item", "monster", "skill", "tag", "tier", "size">>
Cats == Range(ALIAS_CATEGORIES)

sBronze == <<"B", "r", "o", "n", "z", "e">>
sSilver == <<"S", "i", "l", "v", "e", "r">>
sGold == <<"G", "o", "l", "d">>
sDiamond == <<"D", "i", "a", "m", "o", "n", "d">>
sLegendary == <<"L", "e", "g", "e", "n", "d", "a", "r", "y">>

TIER_MAP ==
  << <<Lower(sBronze), sBronze>>, <<Lower(sSilver), sSilver>>,
     <<Lower(sGold), sGold>>, <<Lower(sDiamond), sDiamond>>,
     << <<"tong">>, sBronze >>, << <<"qing", "tong">>, sBronze >>,
     << <<"yin">>, sSilver >>, << <<"bai", "yin">>, sSilver >>,
     << <<"jin">>, sGold >>, << <<"huang", "jin">>, sGold >>,
     << <<"zuan", "shi">>, sDiamond >>, << <<"zuan">>, sDiamond >> >>

tier_cn_to_en ==
  << << <<"qing", "tong">>, sBronze >>, << <<"bai", "yin">>, sSilver >>,
     << <<"huang", "jin">>, sGold >>, << <<"zuan", "shi">>, sDiamond >>,
     << <<"chuan", "qi">>, sLegendary >> >>

\* ----------------------------------------------------------------- catalog
\* The records _load_data reads from the data directory: one item, one
\* monster, one skill and one event, with the fields _build_vocab reads.
sDooley == <<"D", "o", "o", "l", "e", "y">>
sBurn == <<"B", "u", "r", "n">>
sMedium == <<"M", "e", "d", "i", "u", "m">>
Items ==
  << [name_cn |-> <<"zhuo", "shao", "zhi", "jian">>,
      name_en |-> <<"F", "i", " ", "S", "w">>,
      heroes |-> sDooley \o <<" ", "/", " ">> \o <<"du", "li">>,
      size |-> sMedium \o <<" ", "/", " ">> \o <<"zhong", "xing">>,
      tags |-> sBurn \o <<" ", "/", " ">> \o <<"zhuo", "shao">>,
      hidden_tags |-> <<"huo">>] >>
Monsters ==
  << << <<"huo", "ling">>,
        [name_zh |-> <<"huo", "ling">>, name |-> <<"P", "y", "r", "o">>] >> >>
Skills == << [name_cn |-> <<"ling", "jian">>, name_en |-> <<>>] >>
\* The English name of the event has a space after it in the data file.
Events == << [name |-> <<"shi", "jian">>, name_en |-> <<"E", "v", " ">>] >>

\* -------------------------------------------------------------- vocabulary
\* The assignments vocab[p.lower()] = (vtype, p) for the parts p that are at
\* least two characters long.
PartEntries(parts, vtype) ==
  LET kept == SelectSeq(parts, LAMBDA p : p # <<>> /\ Len(p) >= 2)
  IN  [i \in 1..Len(kept) |-> <<Lower(kept[i]), <<vtype, kept[i]>>>>]

\* item["heroes"] split on "/"; a part holding " | " keeps what precedes it.
HeroParts(h) ==
  LET parts == Split(h, <<"/">>)
      bar == <<" ", "|", " ">>
      Clean(p) == IF Contains(Strip(p), bar)
                  THEN Strip(Split(Strip(p), bar)[1]) ELSE Strip(p)
  IN  [i \in 1..Len(parts) |-> Clean(parts[i])]

\* item["size"] split on "/"
SizeParts(z) ==
  LET parts == Split(z, <<"/">>) IN [i \in 1..Len(parts) |-> Strip(parts[i])]

\* item["tags"] or item["hidden_tags"] split on "|" and then on "/"
TagParts(tv) ==
  LET ts == Split(tv, <<"|">>)
      Sub(t) == LET ps == Split(Strip(t), <<"/">>)
                IN  [i \in 1..Len(ps) |-> Strip(ps[i])]
  IN  Concat([i \in 1..Len(ts) |-> Sub(ts[i])])

\* The assignments of the loop over self.items.
ItemEntries(item) ==
  PartEntries(HeroParts(item.heroes), "hero")
    \o PartEntries(SizeParts(item.size), "size")
    \o PartEntries(TagParts(item.tags), "tag")
    \o PartEntries(TagParts(item.hidden_tags), "tag")

\* The assignments of the loop over ALIAS_CATEGORIES: the item, monster and
\* skill aliases are skipped; al is the alias map, category -> dict.
\* The alias loop storing each alias as it is spelled, without lower().
AliasEntries_AsSpelled(al) ==
  LET OfCat(cat) ==
        IF cat \in {"item", "monster", "skill"} THEN <<>>
        ELSE [i \in 1..Len(al[cat]) |-> <<al[cat][i][1], <<cat, al[cat][i][2]>>>>]
  IN  Concat([i \in 1..Len(ALIAS_CATEGORIES) |-> OfCat(ALIAS_CATEGORIES[i])])

AliasEntries(al) ==
  LET OfCat(cat) ==
        IF cat \in {"item", "monster", "skill"} THEN <<>>
        ELSE [i \in 1..Len(al[cat]) |->
                <<Lower(al[cat][i][1]), <<cat, al[cat][i][2]>>>>]
  IN  Concat([i \in 1..Len(ALIAS_CATEGORIES) |-> OfCat(ALIAS_CATEGORIES[i])])

\* The assignments of the loop over TIER_MAP: keys of two characters or more.
TierMapEntries ==
  LET kept == SelectSeq(TIER_MAP, LAMBDA e : Len(e[1]) >= 2)
  IN  [i \in 1..Len(kept) |-> <<kept[i][1], <<"tier", kept[i][2]>>>>]

\* The assignments of the loop over tier_cn_to_en: cn, then en.lower().
TierCnEntries ==
  Concat([i \in 1..Len(tier_cn_to_en) |->
            << <<tier_cn_to_en[i][1], <<"tier", tier_cn_to_en[i][2]>>>>,
               <<Lower(tier_cn_to_en[i][2]), <<"tier", tier_cn_to_en[i][2]>>>> >>])

\* _build_vocab, first half: the dict self._vocab.
BuildVocab(items, al) ==
  DictSetAll(<<>>,
    Concat([i \in 1..Len(items) |-> ItemEntries(items[i])])
      \o AliasEntries(al) \o TierMapEntries \o TierCnEntries)
\* _build_vocab on the loaded catalog: the loop over self.items adds the same
\* entries on every call, so they are computed once.
LoadedItemEntries == Concat([i \in 1..Len(Items) |-> ItemEntries(Items[i])])
FixedTierEntries == TierMapEntries \o TierCnEntries
BuildVocabLoaded(al) ==
  DictSetAll(<<>>, LoadedItemEntries \o AliasEntries(al) \o FixedTierEntries)

\* sorted(vocab.keys(), key=len, reverse=True): a stable sort, so keys of one
\* length keep their dict order.
RECURSIVE SortByLenDesc(_, _)
SortByLenDesc(keys, n) ==
  IF n < 0 THEN <<>>
  ELSE SelectSeq(keys, LAMBDA k : Len(k) = n) \o SortByLenDesc(keys, n - 1)
MaxKeyLen(keys) ==
  IF keys = <<>> THEN 0
  ELSE CHOOSE n \in {Len(keys[i]) : i \in 1..Len(keys)} :
         \A i \in 1..Len(keys) : Len(keys[i]) <= n
VocabSorted(v) == SortByLenDesc(DictKeys(v), MaxKeyLen(DictKeys(v)))

\* _build_vocab, second half: the set self._entity_names.
EntityNames(items, monsters, skills, events) ==
  LET NonEmpty(S) == {n \in S : n # <<>>}
  IN  NonEmpty({Lower(Strip(items[i].name_cn)) : i \in 1..Len(items)}
               \cup {Lower(Strip(items[i].name_en)) : i \in 1..Len(items)})
      \cup {Lower(monsters[i][1]) : i \in 1..Len(monsters)}
      \cup NonEmpty({Lower(Strip(monsters[i][2].name_zh)) : i \in 1..Len(monsters)}
               \cup {Lower(Strip(monsters[i][2].name)) : i \in 1..Len(monsters)})
      \cup NonEmpty({Lower(Strip(skills[i].name_cn)) : i \in 1..Len(skills)}
               \cup {Lower(Strip(skills[i].name_en)) : i \in 1..Len(skills)})
      \cup NonEmpty({Lower(Strip(events[i].name)) : i \in 1..Len(events)}
               \cup {Lower(Strip(events[i].name_en)) : i \in 1..Len(events)})

\* _is_entity_name
\* _is_entity_name comparing the text as it is spelled, without lower().
IsEntityName_AsSpelled(names, text) ==
  \/ text \in names
  \/ \E name \in names : Len(text) >= 2 /\ Contains(name, text)

\* _is_entity_name without the loop over the names: exact matches only.
IsEntityName_ExactOnly(names, text) == Lower(text) \in names

IsEntityName(names, text) ==
  LET tl == Lower(text)
  IN  \/ tl \in names
      \/ \E name \in names : Len(tl) >= 2 /\ Contains(name, tl)

\* The catalog the data files of the model hold.
LoadedCatalog ==
  [items |-> Items, monsters |-> Monsters, skills |-> Skills, events |-> Events]
\* A wider catalog, as a data update may load it.
sVanessa == <<"V", "a", "n", "e", "s", "s", "a">>
sSmall == <<"S", "m", "a", "l", "l">>
sWeapon == <<"W", "e", "a", "p", "o", "n">>
sSlash == <<" ", "/", " ">>
\* A second catalog: three items that share heroes, tags, sizes and tiers and
\* whose names lie inside each other, and two monsters, one with a skill and
\* one with a dropped item.
WideItems ==
  << [name_cn |-> <<"zhuo", "shao", "zhi", "jian">>,
      name_en |-> <<"F", "i", " ", "S", "w">>,
      heroes |-> sDooley \o sSlash \o <<"du", "li">>,
      size |-> sMedium \o sSlash \o <<"zhong", "xing">>,
      tags |-> sBurn \o sSlash \o <<"zhuo", "shao">> \o <<" ", "|", " ">>
                 \o sWeapon \o sSlash \o <<"wu", "qi4">>,
      hidden_tags |-> <<"huo">>,
      starting_tier |-> sGold \o sSlash \o <<"huang", "jin">>],
     [name_cn |-> <<"du", "li", "zhong", "xing", "zhuo", "shao", "jian">>,
      name_en |-> <<"F", "i", "s", "h">>,
      heroes |-> sDooley \o sSlash \o <<"du", "li">> \o sSlash \o sVanessa,
      size |-> sSmall \o sSlash \o <<"xiao", "xing">>,
      tags |-> sBurn \o sSlash \o <<"zhuo", "shao">>,
      hidden_tags |-> <<>>,
      starting_tier |-> sSilver \o sSlash \o <<"bai", "yin">>],
     [name_cn |-> <<"jian">>,
      name_en |-> <<"F", "i">>,
      heroes |-> sVanessa,
      size |-> sMedium \o sSlash \o <<"zhong", "xing">>,
      tags |-> sWeapon \o sSlash \o <<"wu", "qi4">>,
      hidden_tags |-> <<"S", "w", "i", "f", "t">>,
      starting_tier |-> sGold \o sSlash \o <<"huang", "jin">>] >>
WideMonsters ==
  << << <<"huo", "ling">>,
        [name_zh |-> <<"huo", "ling">>, name |-> <<"P", "y", "r", "o">>,
         skills |-> <<>>,
         items |-> << [name |-> <<"yu">>, name_en |-> <<"E", "m">>] >>] >>,
     << <<"huo", "ling", "wu">>,
        [name_zh |-> <<"huo", "ling", "wu">>,
         name |-> <<"P", "y", "r", "o", " ", "K">>,
         skills |-> << [name |-> <<"ling", "jian">>, name_en |-> <<"S", "k">>] >>,
         items |-> <<>>] >> >>
WideEvents ==
  Events \o << [name |-> <<"qi", "shi">>, name_en |-> <<"F", "y">>] >>
WideCatalog ==
  [items |-> WideItems, monsters |-> WideMonsters, skills |-> Skills,
   events |-> WideEvents]
Catalogs == {LoadedCatalog, WideCatalog}
\* _build_vocab on the catalog ctlg: its two halves.
WideItemEntries == Concat([i \in 1..Len(WideItems) |-> ItemEntries(WideItems[i])])
BuildVocabOf(ctlg, al) ==
  IF ctlg.items = Items THEN BuildVocabLoaded(al)
  ELSE IF ctlg.items = WideItems
       THEN DictSetAll(<<>>, WideItemEntries \o AliasEntries(al) \o FixedTierEntries)
       ELSE BuildVocab(ctlg.items, al)
EntityNamesOf(ctlg) ==
  EntityNames(ctlg.items, ctlg.monsters, ctlg.skills, ctlg.events)
\* No query function has been called.
NoCall == [op |-> "none"]
\* The keys _cached_request is called with, and who calls it
CacheKeys == {"wp_builds:a:3", "news:3"}
Callers == {1, 2}
\* self._cache = {} and no call running
EmptyCache == [k \in CacheKeys |-> <<>>]
IdleCall == [pc |-> "idle"]
NoCalls == [c \in Callers |-> IdleCall]

\* -------------------------------------------------------------------- state
VARIABLES
  mode,           \* "config": self.config is set; "file": data/aliases.json
  aliases,        \* self.aliases: category -> dict alias -> target
  config,         \* self.config[CONFIG_KEY_MAP[cat]], per category
  file,           \* data/aliases.json: its content and st_mtime
  aliases_mtime,  \* self._aliases_mtime
  clock,          \* the time, which a written file gets as its st_mtime
  vocab,          \* self._vocab
  vocab_sorted,   \* self._vocab_sorted
  entity_names,   \* self._entity_names
  last,           \* the last operation, its reply and its result
  persisted,      \* the aliases a persisted add stored and nothing removed since
  tok,            \* the running _smart_tokenize call or vocabulary lookup
  catalog,        \* self.items, self.monsters, self.skills, self.events
  out,            \* the last call of a query function: its arguments and result
  cache,          \* self._cache: key -> (time stored under, data)
  calls           \* the _cached_request calls that are running, per caller

vars ==
  <<mode, aliases, config, file, aliases_mtime, clock, vocab, vocab_sorted,
    entity_names, last, persisted, tok, catalog, out, cache, calls>>

EmptyAliases == [c \in Cats |-> <<>>]

\* ------------------------------------------------------------- persistence
\* A configuration value is a dict object ("dict"), a string holding the
\* JSON text of an object ("json", as json.dumps writes it) or a string that
\* is no JSON object ("text"); m is the mapping the dict or the text holds.
JsonDumps(d) == [kind |-> "json", m |-> d]
DictValue(d) == [kind |-> "dict", m |-> d]
BadText == [kind |-> "text", m |-> <<>>]

\* _parse_alias_value
ParseAliasValue(val) == IF val.kind \in {"dict", "json"} THEN val.m ELSE <<>>

\* data/aliases.json: absent, a JSON document category -> dict ("json"), or
\* text json.load rejects ("text", what a write that fails midway leaves).
AbsentFile == [kind |-> "absent", m |-> EmptyAliases, mtime |-> 0]

\* _load_aliases: the alias map read from the store
LoadAliases(md, cfg, f) ==
  IF md = "config"
  THEN [c \in Cats |-> ParseAliasValue(cfg[c])]
  ELSE IF f.kind = "json" THEN [c \in Cats |-> f.m[c]] ELSE EmptyAliases

\* _save_aliases writes self.config[...] for every category before it calls
\* save_config(), so the configuration object holds the new values whether
\* or not save_config() raises.
SaveConfig(al) == [c \in Cats |-> JsonDumps(al[c])]

\* _save_aliases on data/aliases.json.  open(path, "w") raising leaves the
\* file as it was ("open_fail"); json.dump or the closing flush raising
\* leaves the truncated file ("dump_fail").
SaveFile(al, f, outcome, now) ==
  CASE outcome = "ok" -> [kind |-> "json", m |-> al, mtime |-> now]
    [] outcome = "dump_fail" -> [kind |-> "text", m |-> EmptyAliases, mtime |-> now]
    [] OTHER -> f

SaveOutcomes(md) ==
  IF md = "config" THEN {"ok", "save_fail"} ELSE {"ok", "open_fail", "dump_fail"}

\* self.aliases != old: dict comparison, which ignores insertion order
AliasesDiffer(a, b) == \E c \in Cats : ~DictEq(a[c], b[c])

\* path.stat().st_mtime if path.exists() else 0
StatMtime(f) == IF f.kind = "absent" THEN 0 ELSE f.mtime

\* _reload_aliases_if_changed: does the check reload, does it rebuild
ReloadNeeded(md, f, am) == md = "config" \/ StatMtime(f) # am
RebuildNeeded(md, al, cfg, f, am) ==
  IF md = "config" THEN AliasesDiffer(LoadAliases(md, cfg, f), al)
  ELSE StatMtime(f) # am

\* The alias map after _reload_aliases_if_changed
Reloaded(md, al, cfg, f, am) ==
  IF ReloadNeeded(md, f, am) THEN LoadAliases(md, cfg, f) ELSE al

\* _resolve_alias after the staleness check: the first match over the item,
\* monster and skill aliases, then over the hero aliases, else the query.
RECURSIVE FirstMatch(_, _)
FirstMatch(d, ql) ==
  IF d = <<>> THEN <<FALSE, <<>>>>
  ELSE IF ql = Lower(Head(d)[1]) THEN <<TRUE, Head(d)[2]>>
  ELSE FirstMatch(Tail(d), ql)
\* _resolve_alias comparing the query with the alias as typed, not its lower().
ResolveIn_CaseSensitive(al, query) ==
  LET q == Strip(query)
      all == al["item"] \o al["monster"] \o al["skill"] \o al["hero"]
      hits == {i \in 1..Len(all) : all[i][1] = q}
  IN  IF hits = {} THEN q ELSE all[CHOOSE i \in hits : \A j \in hits : i <= j][2]
ResolveIn(al, query) ==
  LET q == Strip(query)
      ql == Lower(q)
      all == al["item"] \o al["monster"] \o al["skill"] \o al["hero"]
      m == FirstMatch(all, ql)
  IN  IF m[1] THEN m[2] ELSE q

\* ------------------------------------------------------------------ inputs
kab == <<"a", "b">>
kAB == <<"A", "B">>
tX == <<"X">>
tY == <<"Y">>
\* The add commands of a run.  The categories: one the resolver alone reads
\* (item), one the vocabulary alone reads (tag), one both read (hero).  The
\* keys: one alias, rebound to a second target, spelled in another case in
\* the same category, and repeated in two more categories.
AddInputs ==
  { <<"item", kab, tX>>, <<"item", kab, tY>>, <<"item", kAB, tY>>,
    <<"hero", kab, tY>>, <<"tag", kab, tX>> }
DelInputs == {<<e[1], e[2]>> : e \in AddInputs}
Queries == {kab, <<" ", "A", "b", " ">>}
\* What initialize() finds in the store: nothing, one item alias, or two tag
\* aliases that differ in case only.
InitialAliases ==
  { EmptyAliases,
    [EmptyAliases EXCEPT !["item"] = << <<kab, tX>> >>],
    [EmptyAliases EXCEPT !["tag"] = << <<kAB, tX>>, <<kab, tY>> >>] }
\* What an external editor writes as one category's mapping: the two tag
\* aliases in the other order, an empty alias, a hero alias, or nothing.
ExternalInputs ==
  { <<"tag", << <<kab, tY>>, <<kAB, tX>> >> >>,
    <<"tag", << << <<>>, tX >> >> >>,
    <<"hero", << <<kAB, tX>> >> >>,
    <<"item", <<>> >> }

\* The record of an operation: what it was, its reply and result, and in
\* prev the alias mutation it was or the one that came right before it
\* (saved: the store write succeeded; existed: the key was defined before the
\* add; current: the vocabulary was a rebuild of the alias map before the
\* add; prevocab: the vocabulary before the add; addthen: this delete follows
\* an add of the same key), and whether an external edit came right before.
NoPrev ==
  [op |-> "none", cat |-> "none", key |-> <<>>, target |-> <<>>, saved |-> TRUE,
   existed |-> FALSE, current |-> TRUE, prevocab |-> <<>>, addthen |-> FALSE]
PrevOf(l) ==
  IF l.op \in {"add", "del"} /\ l.prev.op # "none" THEN l.prev ELSE NoPrev
Record(op, key, reply, res, prev) ==
  [op |-> op, key |-> key, reply |-> reply, res |-> res, prev |-> prev,
   afterext |-> (op \in {"resolve", "search"} /\ last.op = "extedit")]

NumAliases(al) == Len(al["hero"]) + Len(al["item"]) + Len(al["monster"])
                    + Len(al["skill"]) + Len(al["tag"]) + Len(al["tier"])
                    + Len(al["size"])

\* --------------------------------------------------------------- tokenizer
\* str.split(): the maximal runs of non-whitespace characters
RECURSIVE SplitWs(_)
SplitWs(s) ==
  LET t == LStrip(s)
      ends == {i \in 1..Len(t) : t[i] = " "}
      n == IF ends = {} THEN Len(t) + 1 ELSE CHOOSE i \in ends : \A j \in ends : i <= j
  IN  IF t = <<>> THEN <<>>
      ELSE <<SubSeq(t, 1, n - 1)>> \o SplitWs(Drop(t, n - 1))

\* The first term of terms whose index is in hits, as <<TRUE, term>>, or
\* <<FALSE, <<>>>> when hits is empty: a for loop left by break.
FirstTerm(terms, hits) ==
  IF hits = {} THEN <<FALSE, <<>>>>
  ELSE <<TRUE, terms[CHOOSE i \in hits : \A j \in hits : i <= j]>>

\* The state of one _smart_tokenize call: where it is (pc), the query, the
\* tokens of query.split() not yet handled, result, and inside the while
\* loop remaining and extracted; entry is what a vocabulary lookup found.
IdleTok ==
  [pc |-> "idle", query |-> <<>>, tokens |-> <<>>, result |-> <<>>,
   remaining |-> <<>>, extracted |-> <<>>, entry |-> <<>>]

\* _smart_tokenize up to the loop over the tokens
TokenizeStart(names, query) ==
  IF IsEntityName(names, query)
  THEN [IdleTok EXCEPT !.pc = "done", !.query = query, !.result = <<query>>]
  ELSE [IdleTok EXCEPT !.pc = "tokens", !.query = query, !.tokens = SplitWs(query)]

\* One round of the loop over the tokens, up to the while loop
TokenizeToken(names, t) ==
  LET token == Head(t.tokens)
      rest == [t EXCEPT !.tokens = Tail(t.tokens)]
      has_cjk == \E i \in 1..Len(token) : IsCJK(token[i])
  IN  IF t.tokens = <<>> THEN [t EXCEPT !.pc = "done"]
      ELSE IF \E i \in 1..Len(token) : token[i] = ":"
      THEN [rest EXCEPT !.result = Append(t.result, token)]
      ELSE IF IsEntityName(names, token)
      THEN [rest EXCEPT !.result = Append(t.result, token)]
      ELSE IF has_cjk /\ Len(token) >= 4
      THEN [rest EXCEPT !.pc = "loop", !.remaining = Lower(token), !.extracted = <<>>]
      ELSE [rest EXCEPT !.result = Append(t.result, token)]

\* One round of the while loop that, for a term found further in, keeps the
\* term and not the text before it.
TokenizeLoop_TermOnly(sorted, t) ==
  LET rem == t.remaining
      pre == FirstTerm(sorted, {i \in 1..Len(sorted) : StartsWith(rem, sorted[i])})
      mid == FirstTerm(sorted, {i \in 1..Len(sorted) : Find(rem, sorted[i]) > 0})
      idx == Find(rem, mid[2])
      Leave(ex) == [t EXCEPT !.pc = "tokens", !.result = t.result \o ex,
                             !.remaining = <<>>, !.extracted = <<>>]
  IN  IF rem = <<>> THEN Leave(t.extracted)
      ELSE IF pre[1]
      THEN [t EXCEPT !.extracted = Append(t.extracted, pre[2]),
                     !.remaining = Drop(rem, Len(pre[2]))]
      ELSE IF mid[1]
      THEN [t EXCEPT !.extracted = Append(t.extracted, mid[2]),
                     !.remaining = Drop(rem, idx + Len(mid[2]))]
      ELSE Leave(Append(t.extracted, rem))

\* One test of the while condition and, when it holds, one round of the
\* while loop: the longest term that is a prefix of remaining, else the
\* longest term found further in, else the rest as it is.
TokenizeLoop(sorted, t) ==
  LET rem == t.remaining
      pre == FirstTerm(sorted, {i \in 1..Len(sorted) : StartsWith(rem, sorted[i])})
      mid == FirstTerm(sorted, {i \in 1..Len(sorted) : Find(rem, sorted[i]) > 0})
      idx == Find(rem, mid[2])
      Leave(ex) == [t EXCEPT !.pc = "tokens", !.result = t.result \o ex,
                             !.remaining = <<>>, !.extracted = <<>>]
  IN  IF rem = <<>> THEN Leave(t.extracted)
      ELSE IF pre[1]
      THEN [t EXCEPT !.extracted = Append(t.extracted, pre[2]),
                     !.remaining = Drop(rem, Len(pre[2]))]
      ELSE IF mid[1]
      THEN [t EXCEPT !.extracted = t.extracted \o <<SubSeq(rem, 1, idx), mid[2]>>,
                     !.remaining = Drop(rem, idx + Len(mid[2]))]
      ELSE Leave(Append(t.extracted, rem))

\* The vocabulary lookup of _parse_search_conditions: the entry of
\* part.lower().strip(), or <<>> when the vocabulary has none.
VocabEntry(v, part) == DictGet(v, Strip(Lower(part)), <<>>)

\* -------------------------------------------------------- condition parser
\* str.upper() of one character
UpperChar(c) ==
  CASE c = "a" -> "A" [] c = "b" -> "B" [] c = "c" -> "C" [] c = "d" -> "D"
    [] c = "e" -> "E" [] c = "f" -> "F" [] c = "g" -> "G" [] c = "h" -> "H"
    [] c = "i" -> "I" [] c = "j" -> "J" [] c = "k" -> "K" [] c = "l" -> "L"
    [] c = "m" -> "M" [] c = "n" -> "N" [] c = "o" -> "O" [] c = "p" -> "P"
    [] c = "q" -> "Q" [] c = "r" -> "R" [] c = "s" -> "S" [] c = "t" -> "T"
    [] c = "u" -> "U" [] c = "v" -> "V" [] c = "w" -> "W" [] c = "x" -> "X"
    [] c = "y" -> "Y" [] c = "z" -> "Z" [] OTHER -> c
\* str.capitalize(): the first character upper-cased, the rest lower-cased
Capitalize(s) ==
  IF s = <<>> THEN <<>> ELSE <<UpperChar(s[1])>> \o Lower(Tail(s))

\* part.split(":", 1) of a part that holds a ":": <<prefix, value>>
SplitPrefix(part) ==
  LET i == Find(part, <<":">>)
  IN  <<SubSeq(part, 1, i), Drop(part, i + 1)>>

\* " ".join(keywords)
RECURSIVE JoinSpace(_)
JoinSpace(ss) ==
  IF ss = <<>> THEN <<>>
  ELSE IF Len(ss) = 1 THEN ss[1]
  ELSE ss[1] \o <<" ">> \o JoinSpace(Tail(ss))

\* The facet prefixes of _parse_search_conditions, lower-cased, and the
\* list each one appends to.
FacetPrefixes ==
  << <<<<"t", "a", "g">>, "tags">>, <<<<"biao", "qian">>, "tags">>,
     <<<<"t", "i", "e", "r">>, "tiers">>, <<<<"pin", "zhi4">>, "tiers">>,
     <<<<"h", "e", "r", "o">>, "heroes">>, <<<<"ying", "xiong">>, "heroes">>,
     <<<<"s", "i", "z", "e">>, "sizes">>, <<<<"chi", "cun">>, "sizes">> >>

\* TIER_MAP.get(value.lower(), value.capitalize()) without the table: the
\* value capitalized.
NormalizeTier_NoTable(value) == Capitalize(value)

\* TIER_MAP.get(value.lower(), value.capitalize())
NormalizeTier(value) == DictGet(TIER_MAP, Lower(value), Capitalize(value))

\* The list a vocabulary entry of type vtype appends to
FacetOfType(vtype) ==
  CASE vtype = "hero" -> "heroes" [] vtype = "tier" -> "tiers"
    [] vtype = "tag" -> "tags" [] vtype = "size" -> "sizes" [] OTHER -> "none"

\* conditions and keywords before the loop over the tokens
NoConditions ==
  [keywords |-> <<>>, tags |-> <<>>, tiers |-> <<>>, heroes |-> <<>>, sizes |-> <<>>]

\* The loop round without its vocabulary branch: a part without ":" is a
\* keyword.
ParsePart_PrefixOnly(v, c, part) ==
  LET lower == Strip(Lower(part))
      pv == SplitPrefix(part)
      facet == DictGet(FacetPrefixes, Lower(pv[1]), "none")
  IN  IF lower = <<>> THEN c
      ELSE IF Contains(part, <<":">>)
      THEN IF facet = "tiers"
           THEN [c EXCEPT !.tiers = Append(@, DictGet(TIER_MAP, Lower(pv[2]), Capitalize(pv[2])))]
           ELSE IF facet = "none"
           THEN [c EXCEPT !.keywords = Append(@, part)]
           ELSE [c EXCEPT ![facet] = Append(@, pv[2])]
      ELSE [c EXCEPT !.keywords = Append(@, part)]

\* The loop round that keeps only the value of a part whose prefix is none
\* of the facet prefixes.
ParsePart_ValueOnly(v, c, part) ==
  LET lower == Strip(Lower(part))
      pv == SplitPrefix(part)
      facet == DictGet(FacetPrefixes, Lower(pv[1]), "none")
      entry == DictGet(v, lower, <<>>)
  IN  IF lower = <<>> THEN c
      ELSE IF Contains(part, <<":">>)
      THEN IF facet = "tiers"
           THEN [c EXCEPT !.tiers = Append(@, DictGet(TIER_MAP, Lower(pv[2]), Capitalize(pv[2])))]
           ELSE IF facet = "none"
           THEN [c EXCEPT !.keywords = Append(@, pv[2])]
           ELSE [c EXCEPT ![facet] = Append(@, pv[2])]
      ELSE IF DictHas(v, lower)
      THEN IF FacetOfType(entry[1]) = "none" THEN c
           ELSE [c EXCEPT ![FacetOfType(entry[1])] = Append(@, entry[2])]
      ELSE [c EXCEPT !.keywords = Append(@, part)]

\* One round of the loop over the tokens in _parse_search_conditions
ParsePart(v, c, part) ==
  LET lower == Strip(Lower(part))
      pv == SplitPrefix(part)
      facet == DictGet(FacetPrefixes, Lower(pv[1]), "none")
      entry == DictGet(v, lower, <<>>)
  IN  IF lower = <<>> THEN c
      ELSE IF Contains(part, <<":">>)
      THEN IF facet = "tiers"
           THEN [c EXCEPT !.tiers = Append(@, NormalizeTier(pv[2]))]
           ELSE IF facet = "none"
           THEN [c EXCEPT !.keywords = Append(@, part)]
           ELSE [c EXCEPT ![facet] = Append(@, pv[2])]
      ELSE IF DictHas(v, lower)
      THEN IF FacetOfType(entry[1]) = "none" THEN c
           ELSE [c EXCEPT ![FacetOfType(entry[1])] = Append(@, entry[2])]
      ELSE [c EXCEPT !.keywords = Append(@, part)]

\* _parse_search_conditions on the tokens _smart_tokenize returned
RECURSIVE ParseParts(_, _, _)
ParseParts(v, c, tokens) ==
  IF tokens = <<>> THEN c
  ELSE ParseParts(v, ParsePart(v, c, Head(tokens)), Tail(tokens))
ParseSearchConditions(v, tokens) ==
  LET c == ParseParts(v, NoConditions, tokens)
  IN  [keyword |-> JoinSpace(c.keywords), tags |-> c.tags, tiers |-> c.tiers,
       heroes |-> c.heroes, sizes |-> c.sizes]

\* -------------------------------------------------------------------- Init
\* The state after initialize(): data loaded, aliases loaded from the store,
\* the file's mtime recorded, the vocabulary built.
Init ==
  /\ mode \in {"config", "file"}
  /\ \E al \in InitialAliases :
       /\ config = [c \in Cats |-> DictValue(IF mode = "config" THEN al[c] ELSE <<>>)]
       /\ file = IF mode = "config" \/ al = EmptyAliases THEN AbsentFile
                 ELSE [kind |-> "json", m |-> al, mtime |-> 1]
  /\ aliases = LoadAliases(mode, config, file)
  /\ aliases_mtime = StatMtime(file)
  /\ clock = 1
  /\ vocab = BuildVocabLoaded(aliases)
  /\ vocab_sorted = VocabSorted(vocab)
  /\ entity_names = EntityNames(Items, Monsters, Skills, Events)
  /\ last = [op |-> "init", key |-> <<>>, reply |-> "none", res |-> <<>>,
             prev |-> NoPrev, afterext |-> FALSE]
  /\ persisted = {}
  /\ tok = IdleTok
  /\ catalog = LoadedCatalog
  /\ out = NoCall
  /\ cache = EmptyCache
  /\ calls = NoCalls

\* ----------------------------------------------------------------- actions
\* cmd_alias patching the alias entries into the vocabulary it has, where
\* _build_vocab() builds a new one.
SaveAndPatch(al, outcome) ==
  /\ outcome \in SaveOutcomes(mode)
  /\ aliases' = al
  /\ clock < MaxClock
  /\ clock' = clock + 1
  /\ IF mode = "config"
     THEN /\ config' = SaveConfig(al)
          /\ UNCHANGED file
     ELSE /\ file' = SaveFile(al, file, outcome, clock + 1)
          /\ UNCHANGED config
  /\ vocab' = DictSetAll(vocab, AliasEntries(al))
  /\ vocab_sorted' = VocabSorted(vocab')
  /\ UNCHANGED <<cache, calls, mode, aliases_mtime, entity_names, tok, catalog, out>>

\* _save_aliases() then _build_vocab(), as cmd_alias calls them after it
\* changed self.aliases to al.
SaveAndBuild(al, outcome) ==
  /\ outcome \in SaveOutcomes(mode)
  /\ aliases' = al
  /\ clock < MaxClock
  /\ clock' = clock + 1
  /\ IF mode = "config"
     THEN /\ config' = SaveConfig(al)
          /\ UNCHANGED file
     ELSE /\ file' = SaveFile(al, file, outcome, clock + 1)
          /\ UNCHANGED config
  /\ vocab' = BuildVocabOf(catalog, al)
  /\ vocab_sorted' = VocabSorted(vocab')
  /\ entity_names' = EntityNamesOf(catalog)
  /\ UNCHANGED <<cache, calls, mode, aliases_mtime, tok, catalog, out>>

\* What the store holds of the persisted aliases after a write: a write that
\* failed midway is no delete, so it removes nothing from the set.
StillStored(P, md, cfg, f) ==
  {e \in P : DictHas(LoadAliases(md, cfg, f)[e[1]], e[2])
             /\ DictGet(LoadAliases(md, cfg, f)[e[1]], e[2], <<>>) = e[3]}

\* cmd_alias, action "add", with a known category and all arguments
CmdAliasAdd(cat, alias, target, outcome) ==
  LET al == [aliases EXCEPT ![cat] = DictSet(@, alias, target)]
      existed == DictHas(aliases[cat], alias)
      others == {e \in persisted : ~(e[1] = cat /\ e[2] = alias)}
  IN  /\ NumAliases(al) <= MaxAliases
      /\ SaveAndBuild(al, outcome)
      /\ last' = Record("add", alias, IF existed THEN "updated" ELSE "added", <<>>,
                        [op |-> "add", cat |-> cat, key |-> alias, target |-> target,
                         saved |-> (outcome = "ok"), existed |-> existed,
                         current |-> (vocab = BuildVocabLoaded(aliases)),
                         prevocab |-> vocab, addthen |-> FALSE])
      /\ persisted' = IF outcome = "ok" THEN others \cup {<<cat, alias, target>>}
                      ELSE others

\* cmd_alias, action "del", writing the store and rebuilding the vocabulary
\* whether or not the alias was there.
CmdAliasDel_SavesAnyway(cat, alias) ==
  \E outcome \in SaveOutcomes(mode) :
    /\ SaveAndBuild([aliases EXCEPT ![cat] = DictPop(@, alias)], outcome)
    /\ last' = Record("del", alias,
                      IF DictHas(aliases[cat], alias) THEN "deleted" ELSE "not_found",
                      <<>>, NoPrev)
    /\ persisted' = {e \in persisted : ~(e[1] = cat /\ e[2] = alias)}

\* cmd_alias, action "del", with a known category and all arguments
CmdAliasDel(cat, alias) ==
  IF DictHas(aliases[cat], alias)
  THEN \E outcome \in SaveOutcomes(mode) :
         LET follows == last.op = "add" /\ last.prev.cat = cat /\ last.prev.key = alias
         IN  /\ SaveAndBuild([aliases EXCEPT ![cat] = DictPop(@, alias)], outcome)
             /\ last' = Record("del", alias, "deleted", <<>>,
                          [op |-> "del", cat |-> cat, key |-> alias, target |-> <<>>,
                           saved |-> (outcome = "ok"),
                           existed |-> (follows /\ last.prev.existed),
                           current |-> (follows /\ last.prev.current),
                           prevocab |-> IF follows THEN last.prev.prevocab ELSE <<>>,
                           addthen |-> follows])
             /\ persisted' = {e \in persisted : ~(e[1] = cat /\ e[2] = alias)}
  ELSE /\ last' = Record("del", alias, "not_found", <<>>, NoPrev)
       /\ UNCHANGED <<cache, calls, mode, aliases, config, file, aliases_mtime, clock, vocab,
                      vocab_sorted, entity_names, persisted, tok, catalog,
                      out>>

\* _reload_aliases_if_changed, as every query runs it first
ReloadAliasesIfChanged ==
  LET al == Reloaded(mode, aliases, config, file, aliases_mtime)
  IN  /\ aliases' = al
      /\ aliases_mtime' = IF mode = "file" THEN StatMtime(file) ELSE aliases_mtime
      /\ IF RebuildNeeded(mode, aliases, config, file, aliases_mtime)
         THEN /\ vocab' = BuildVocabOf(catalog, al)
              /\ vocab_sorted' = VocabSorted(vocab')
              /\ entity_names' = EntityNamesOf(catalog)
         ELSE UNCHANGED <<vocab, vocab_sorted, entity_names>>
      /\ UNCHANGED <<cache, calls, mode, config, file, clock, persisted, tok, catalog>>

\* _resolve_alias(query)
ResolveAlias(query) ==
  /\ ReloadAliasesIfChanged
  /\ last' = Record("resolve", query, "none",
                    ResolveIn(Reloaded(mode, aliases, config, file, aliases_mtime),
                              query),
                    PrevOf(last))
  /\ UNCHANGED out

\* cmd_search and _translate_build_query up to the point where they read the
\* vocabulary: the staleness check.
CmdSearch ==
  /\ ReloadAliasesIfChanged
  /\ last' = Record("search", <<>>, "none", <<>>, PrevOf(last))
  /\ UNCHANGED out

\* Someone edits the alias store outside the plugin: one category's value in
\* the host configuration, or that category in data/aliases.json.
ExternalEdit(cat, d) ==
  /\ clock < MaxClock
  /\ clock' = clock + 1
  /\ IF mode = "config"
     THEN /\ config' = [config EXCEPT ![cat] = JsonDumps(d)]
          /\ UNCHANGED file
     ELSE /\ file' = [kind |-> "json",
                      m |-> [LoadAliases(mode, config, file) EXCEPT ![cat] = d],
                      mtime |-> clock + 1]
          /\ UNCHANGED config
  /\ config' # config \/ file' # file
  /\ persisted' = StillStored(persisted, mode, config', file')
  /\ last' = Record("extedit", <<>>, "none", <<>>, NoPrev)
  /\ UNCHANGED <<cache, calls, mode, aliases, aliases_mtime, vocab, vocab_sorted, entity_names, tok,
                 catalog, out>>

\* Someone makes the store unreadable: a configuration value that is no JSON
\* object, or data/aliases.json removed.
ExternalBreak(cat) ==
  /\ clock < MaxClock
  /\ clock' = clock + 1
  /\ IF mode = "config"
     THEN /\ config' = [config EXCEPT ![cat] = BadText]
          /\ UNCHANGED file
     ELSE /\ file.kind # "absent"
          /\ file' = AbsentFile
          /\ UNCHANGED config
  /\ persisted' = StillStored(persisted, mode, config', file')
  /\ last' = Record("extedit", <<>>, "none", <<>>, NoPrev)
  /\ UNCHANGED <<cache, calls, mode, aliases, aliases_mtime, vocab, vocab_sorted, entity_names, tok,
                 catalog, out>>

Next ==
  \/ \E e \in AddInputs, outcome \in {"ok", "save_fail", "open_fail", "dump_fail"} :
       CmdAliasAdd(e[1], e[2], e[3], outcome)
  \/ \E e \in DelInputs : CmdAliasDel(e[1], e[2])
  \/ \E query \in Queries : ResolveAlias(query)
  \/ CmdSearch
  \/ \E e \in ExternalInputs : ExternalEdit(e[1], e[2])
  \/ ExternalBreak("item")

Spec == Init /\ [][Next]_vars

\* ----------------------------------------------- vocabulary and tokenizer
\* The alias maps initialize() may load: none; an empty alias (a store
\* edited by hand can hold one); an alias spelled like a catalog tag; one
\* spelled like a tier of TIER_MAP; two categories sharing a surface form;
\* a one-character alias.
QueryAliases ==
  { EmptyAliases,
    [EmptyAliases EXCEPT !["tag"] = << << <<>>, tX >> >>],
    [EmptyAliases EXCEPT !["tag"] = << <<sBurn, tX>> >>],
    [EmptyAliases EXCEPT !["tier"] = << << <<"huang", "jin">>, tY >> >>],
    [EmptyAliases EXCEPT !["hero"] = << <<kab, tX>> >>, !["tag"] = << <<kAB, tY>> >>],
    [EmptyAliases EXCEPT !["tag"] = << << <<"zhi">>, tX >> >>] }

QueryLetters == {"zhuo", "shao", "zhi"}
RECURSIVE StringsUpTo(_)
StringsUpTo(n) ==
  IF n = 0 THEN {<<>>}
  ELSE StringsUpTo(n - 1)
         \cup {Append(q, c) : q \in StringsUpTo(n - 1), c \in QueryLetters}
\* The queries tokenized: every string of QueryLetters up to MaxQueryLen, the
\* catalog's names, and queries inside, around and beside a name.
NamedQueries ==
  { <<"zhuo", "shao", "zhi", "jian">>, <<"F", "i", " ", "S", "w">>,
    <<"huo", "ling">>, <<"P", "Y", "R", "O">>, <<"E", "v">>, <<"i", " ", "S">>,
    <<"huo", "ling", " ", "zhuo", "shao">>,
    <<"huo", "ling", "zhuo", "shao", "zhi">>,
    <<"du", "li", "zhong", "xing", "zhuo", "shao">> }
TokQueries == StringsUpTo(MaxQueryLen) \cup NamedQueries
LookupParts ==
  {sBurn, Lower(sBurn), <<"huang", "jin">>, kab, kAB, <<" ", "A", "b">>, <<"zhi">>}

InitQuery ==
  /\ mode = "config"
  /\ \E al \in QueryAliases :
       /\ config = [c \in Cats |-> DictValue(al[c])]
       /\ aliases = LoadAliases(mode, config, AbsentFile)
  /\ file = AbsentFile
  /\ aliases_mtime = 0
  /\ clock = 1
  /\ vocab = BuildVocabLoaded(aliases)
  /\ vocab_sorted = VocabSorted(vocab)
  /\ entity_names = EntityNames(Items, Monsters, Skills, Events)
  /\ last = [op |-> "init", key |-> <<>>, reply |-> "none", res |-> <<>>,
             prev |-> NoPrev, afterext |-> FALSE]
  /\ persisted = {}
  /\ tok = IdleTok
  /\ catalog = LoadedCatalog
  /\ out = NoCall
  /\ cache = EmptyCache
  /\ calls = NoCalls

\* Tokenizing and looking up leave the aliases, the store and the
\* vocabulary as they are.
StoreUnchanged ==
  UNCHANGED <<cache, calls, mode, aliases, config, file, aliases_mtime, clock, vocab,
              vocab_sorted, entity_names, last, persisted, catalog>>

\* _smart_tokenize(query) is called
TokStart(query) ==
  /\ tok.pc = "idle"
  /\ tok' = TokenizeStart(entity_names, query)
  /\ StoreUnchanged
  /\ UNCHANGED out

\* The loop over the tokens takes the next token, or ends
TokToken ==
  /\ tok.pc = "tokens"
  /\ tok' = TokenizeToken(entity_names, tok)
  /\ StoreUnchanged
  /\ UNCHANGED out

\* The while loop tests its condition and runs one round
TokLoop ==
  /\ tok.pc = "loop"
  /\ Len(tok.extracted) < MaxExtracted
  /\ tok' = TokenizeLoop(vocab_sorted, tok)
  /\ StoreUnchanged
  /\ UNCHANGED out

\* A part is looked up in the vocabulary
VocabLookup(part) ==
  /\ tok.pc = "idle"
  /\ tok' = [IdleTok EXCEPT !.pc = "lookup", !.query = part,
                            !.entry = VocabEntry(vocab, part)]
  /\ StoreUnchanged
  /\ UNCHANGED out

QueryNext ==
  \/ \E query \in TokQueries : TokStart(query)
  \/ TokToken
  \/ TokLoop
  \/ \E part \in LookupParts : VocabLookup(part)

SpecQuery == InitQuery /\ [][QueryNext]_vars

\* ------------------------------------------------------ search and lookup

\* The alias maps of the search and lookup runs: none; a tag alias that
\* starts like the hero 杜利 and is longer; an item alias named like a
\* monster; an alias with an empty target.
LookupAliases ==
  { EmptyAliases,
    [EmptyAliases EXCEPT !["tag"] = << << <<"du", "li", "zhong">>, tX >> >>],
    [EmptyAliases EXCEPT !["item"] = << << <<"huo", "ling">>, <<"F", "i">> >> >>],
    [EmptyAliases EXCEPT !["monster"] = << <<kab, <<>>>> >>] }

InitLookup ==
  /\ mode = "config"
  /\ \E al \in LookupAliases :
       /\ config = [c \in Cats |-> DictValue(al[c])]
       /\ aliases = LoadAliases(mode, config, AbsentFile)
  /\ file = AbsentFile
  /\ aliases_mtime = 0
  /\ clock = 1
  /\ catalog \in Catalogs
  /\ vocab = BuildVocabOf(catalog, aliases)
  /\ vocab_sorted = VocabSorted(vocab)
  /\ entity_names = EntityNamesOf(catalog)
  /\ last = [op |-> "init", key |-> <<>>, reply |-> "none", res |-> <<>>,
             prev |-> NoPrev, afterext |-> FALSE]
  /\ persisted = {}
  /\ tok = IdleTok
  /\ out = NoCall
  /\ cache = EmptyCache
  /\ calls = NoCalls

qTierGold == <<"t", "i", "e", "r", ":">> \o sGold
qTagWeapon == <<"t", "a", "g", ":">> \o sWeapon
qFooBar == <<"f", "o", "o", ":", "b", "a", "r">>
\* The search queries: the compound of the specification, prefixed tokens
\* in both languages and letter cases, synonyms of one tier, a prefix that
\* is none, and several values of one facet.
SearchQueries ==
  { <<"du", "li", "zhong", "xing", "zhuo", "shao">>,
    qTierGold \o <<" ">> \o qTagWeapon,
    <<"t", "i", "e", "r", ":", "qing", "tong", " ", "pin", "zhi4", ":", "tong",
      " ", "T", "i", "e", "r", ":", "b", "r", "o", "n", "z", "e">>,
    <<"biao", "qian", ":">> \o sBurn \o <<" ", "ying", "xiong", ":">> \o sDooley
      \o <<" ", "chi", "cun", ":">> \o sMedium,
    qFooBar,
    <<"t", "a", "g", ":">> \o sBurn \o <<" ">> \o qFooBar \o <<" ">> \o sWeapon,
    qTierGold \o <<" ", "t", "i", "e", "r", ":">> \o sSilver,
    <<"s", "i", "z", "e", ":">> \o sMedium \o <<" ", "s", "i", "z", "e", ":">> \o sSmall,
    <<"t", "a", "g", ":">> \o sBurn \o <<" ">> \o qTagWeapon,
    <<"h", "e", "r", "o", ":">> \o sDooley \o <<" ", "h", "e", "r", "o", ":">> \o sVanessa,
    sBurn \o <<" ">> \o sWeapon \o <<" ">> \o sDooley,
    <<"F", "i">> }

\* rec.get(f, ""): the field when the record has it
Field(rec, f) == IF f \in DOMAIN rec THEN rec[f] ELSE <<>>

\* _clean_tier
CleanTier(raw) ==
  IF raw = <<>> THEN <<>>
  ELSE Strip(Split(Strip(Split(raw, <<"/">>)[1]), <<" ">>)[1])

\* The texts of an item that _filter_items compares with the conditions
ItemTags(item) == Lower(Field(item, "tags") \o <<" ">> \o Field(item, "hidden_tags"))
ItemSearchable(item) ==
  Lower(JoinSpace(<<Field(item, "name_cn"), Field(item, "name_en"),
                    Field(item, "tags"), Field(item, "hidden_tags"),
                    Field(item, "heroes"), Field(item, "size")>>))

\* _filter_items with all() in the place of any() for the sizes
FilterItems_SizesAll(items, c) ==
  LET byTags == IF c.tags = <<>> THEN items
                ELSE SelectSeq(items, LAMBDA it :
                       \A i \in 1..Len(c.tags) : Contains(ItemTags(it), Lower(c.tags[i])))
      byTiers == IF c.tiers = <<>> THEN byTags
                 ELSE SelectSeq(byTags, LAMBDA it :
                        \E i \in 1..Len(c.tiers) :
                          c.tiers[i] = CleanTier(Field(it, "starting_tier")))
      byHeroes == IF c.heroes = <<>> THEN byTiers
                  ELSE SelectSeq(byTiers, LAMBDA it :
                         \A i \in 1..Len(c.heroes) :
                           Contains(Lower(Field(it, "heroes")), Lower(c.heroes[i])))
      bySizes == IF c.sizes = <<>> THEN byHeroes
                 ELSE SelectSeq(byHeroes, LAMBDA it :
                        \A i \in 1..Len(c.sizes) :
                          Contains(Lower(Field(it, "size")), Lower(c.sizes[i])))
  IN  IF c.keyword = <<>> THEN bySizes
      ELSE SelectSeq(bySizes, LAMBDA it :
             Contains(ItemSearchable(it), Lower(c.keyword)))

\* _filter_items: the five filters, one after the other
FilterItems(items, c) ==
  LET byTags == IF c.tags = <<>> THEN items
                ELSE SelectSeq(items, LAMBDA it :
                       \A i \in 1..Len(c.tags) : Contains(ItemTags(it), Lower(c.tags[i])))
      byTiers == IF c.tiers = <<>> THEN byTags
                 ELSE SelectSeq(byTags, LAMBDA it :
                        \E i \in 1..Len(c.tiers) :
                          c.tiers[i] = CleanTier(Field(it, "starting_tier")))
      byHeroes == IF c.heroes = <<>> THEN byTiers
                  ELSE SelectSeq(byTiers, LAMBDA it :
                         \A i \in 1..Len(c.heroes) :
                           Contains(Lower(Field(it, "heroes")), Lower(c.heroes[i])))
      bySizes == IF c.sizes = <<>> THEN byHeroes
                 ELSE SelectSeq(byHeroes, LAMBDA it :
                        \E i \in 1..Len(c.sizes) :
                          Contains(Lower(Field(it, "size")), Lower(c.sizes[i])))
  IN  IF c.keyword = <<>> THEN bySizes
      ELSE SelectSeq(bySizes, LAMBDA it :
             Contains(ItemSearchable(it), Lower(c.keyword)))

\* ------------------------------------------------------------- resolver
\* An optional value: None is the empty sequence, a value is a sequence of
\* one.
None == <<>>
Some(x) == <<x>>
\* display = exact[:15] if exact else results[:15]
MaxListed == 15
\* seq[:n]
Take(seq, n) == SubSeq(seq, 1, IF Len(seq) < n THEN Len(seq) ELSE n)

\* The indices of the results whose name holds the query as it is spelled
NarrowedIndices_AsSpelled(names, query) ==
  SelectSeq([i \in 1..Len(names) |-> i], LAMBDA i : Contains(names[i], query))

\* exact = [r for r in results if query.lower() in name_func(r).lower()], as
\* indices into results
NarrowedIndices(names, query) ==
  SelectSeq([i \in 1..Len(names) |-> i],
            LAMBDA i : Contains(Lower(names[i]), Lower(query)))

\* _resolve_search that narrows a single result as it narrows several
ResolveSearch_NarrowTheOne(results, names, query, not_found_msg) ==
  LET exact == NarrowedIndices(names, query)
      all == [i \in 1..Len(results) |-> i]
      display == IF exact # <<>> THEN Take(exact, MaxListed) ELSE Take(all, MaxListed)
  IN  IF results = <<>> THEN [found |-> None, msg |-> not_found_msg]
      ELSE IF Len(exact) = 1 THEN [found |-> Some(results[exact[1]]), msg |-> None]
      ELSE [found |-> None,
            msg |-> Some([kind |-> "multiple",
                          total |-> IF exact # <<>> THEN Len(exact) ELSE Len(results),
                          names |-> [i \in 1..Len(display) |-> names[display[i]]]])]

\* _resolve_search that lists every candidate
ResolveSearch_ListAll(results, names, query, not_found_msg) ==
  LET exact == NarrowedIndices(names, query)
      all == [i \in 1..Len(results) |-> i]
  IN  IF results = <<>> THEN [found |-> None, msg |-> not_found_msg]
      ELSE IF Len(results) = 1 THEN [found |-> Some(results[1]), msg |-> None]
      ELSE IF Len(exact) = 1 THEN [found |-> Some(results[exact[1]]), msg |-> None]
      ELSE [found |-> None,
            msg |-> Some([kind |-> "multiple",
                          total |-> IF exact # <<>> THEN Len(exact) ELSE Len(results),
                          names |-> [i \in 1..Len(IF exact # <<>> THEN exact ELSE all) |->
                                       names[(IF exact # <<>> THEN exact ELSE all)[i]]]])]

\* _resolve_search(results, query, name_func, not_found_msg), names being
\* name_func of each result: <<found, message>> as a record. The message for
\* several results is its total and the names it lists.
ResolveSearch(results, names, query, not_found_msg) ==
  LET exact == NarrowedIndices(names, query)
      all == [i \in 1..Len(results) |-> i]
      display == IF exact # <<>> THEN Take(exact, MaxListed) ELSE Take(all, MaxListed)
      total == IF exact # <<>> THEN Len(exact) ELSE Len(results)
  IN  IF results = <<>> THEN [found |-> None, msg |-> not_found_msg]
      ELSE IF Len(results) = 1 THEN [found |-> Some(results[1]), msg |-> None]
      ELSE IF Len(exact) = 1 THEN [found |-> Some(results[exact[1]]), msg |-> None]
      ELSE [found |-> None,
            msg |-> Some([kind |-> "multiple", total |-> total,
                          names |-> [i \in 1..Len(display) |-> names[display[i]]]])]

\* The display names of the candidates: for the queries ab and AB, one that
\* holds ab, one that holds AB, one that holds neither.
CandidateNames == {<<"x", "a", "b">>, <<"A", "B", "x">>, <<"x", "y">>}
ResolveQueries == {<<"a", "b">>, <<"A", "B">>, <<>>}
RECURSIVE NameListsUpTo(_)
NameListsUpTo(n) ==
  IF n = 0 THEN {<<>>}
  ELSE LET shorter == NameListsUpTo(n - 1)
       IN  shorter \cup {Append(l, c) : l \in {x \in shorter : Len(x) = n - 1},
                                        c \in CandidateNames}
\* The name lists of the calls: a free head and a tail of equal names.
NameLists ==
  {head \o [i \in 1..n |-> filler] :
     head \in NameListsUpTo(MaxPrefix), n \in 0..MaxFill,
     filler \in {<<"x", "a", "b">>, <<"x", "y">>}}
\* The message a caller supplies for no result: none, or a text.
NotFoundMsgs == {None, Some([kind |-> "not_found"])}

\* A call _resolve_search(results, query, name_func, not_found_msg) on
\* candidates told apart by their position.
ResolveSearchCall ==
  /\ tok.pc = "idle"
  /\ out.op = "none"
  /\ \E names \in NameLists, query \in ResolveQueries, nf \in NotFoundMsgs :
       LET results == [i \in 1..Len(names) |-> [id |-> i, name |-> names[i]]]
       IN  out' = [op |-> "resolve", results |-> results, names |-> names,
                   query |-> query, not_found_msg |-> nf,
                   ret |-> ResolveSearch(results, names, query, nf)]
  /\ UNCHANGED tok
  /\ StoreUnchanged

\* ------------------------------------------------------------ suggestions
Min3(a, b, c) ==
  IF a <= b /\ a <= c THEN a ELSE IF b <= c THEN b ELSE c
\* One round of the outer loop where a character that matches costs what a
\* substitution costs.
RECURSIVE EditRow_MatchCosts(_, _, _, _)
EditRow_MatchCosts(prev, c1, s2, curr) ==
  IF Len(curr) = Len(s2) + 1 THEN curr
  ELSE LET k == Len(curr)
       IN  EditRow_MatchCosts(prev, c1, s2,
                   Append(curr, Min3(prev[k + 1] + 1, curr[k] + 1, prev[k] + 1)))
\* One round of the outer loop of _edit_distance: curr, which starts as
\* [i + 1], grows by one entry for every character of s2.
RECURSIVE EditRow(_, _, _, _)
EditRow(prev, c1, s2, curr) ==
  IF Len(curr) = Len(s2) + 1 THEN curr
  ELSE LET k == Len(curr)
       IN  EditRow(prev, c1, s2,
                   Append(curr, Min3(prev[k + 1] + 1, curr[k] + 1,
                                     prev[k] + (IF c1 = s2[k] THEN 0 ELSE 1))))
RECURSIVE EditRows(_, _, _, _)
EditRows(s1, s2, i, prev) ==
  IF i > Len(s1) THEN prev
  ELSE EditRows(s1, s2, i + 1, EditRow(prev, s1[i], s2, <<i>>))
\* _edit_distance
EditDistance(s1, s2) ==
  LET a == IF Len(s1) < Len(s2) THEN s2 ELSE s1
      b == IF Len(s1) < Len(s2) THEN s1 ELSE s2
  IN  IF Len(b) = 0 THEN Len(a)
      ELSE EditRows(a, b, 1, [j \in 1..(Len(b) + 1) |-> j - 1])[Len(b) + 1]

\* all_entries of _fuzzy_suggest: the two names of every entity and what is
\* displayed for it.
SuggestEntries(ctlg) ==
  [i \in 1..Len(ctlg.items) |->
     [type |-> "item", cn |-> Field(ctlg.items[i], "name_cn"),
      en |-> Field(ctlg.items[i], "name_en")]]
  \o [i \in 1..Len(ctlg.monsters) |->
     [type |-> "monster",
      cn |-> IF "name_zh" \in DOMAIN ctlg.monsters[i][2]
             THEN ctlg.monsters[i][2].name_zh ELSE ctlg.monsters[i][1],
      en |-> Field(ctlg.monsters[i][2], "name")]]
  \o [i \in 1..Len(ctlg.skills) |->
     [type |-> "skill", cn |-> Field(ctlg.skills[i], "name_cn"),
      en |-> Field(ctlg.skills[i], "name_en")]]
  \o [i \in 1..Len(ctlg.events) |->
     [type |-> "event", cn |-> Field(ctlg.events[i], "name"),
      en |-> Field(ctlg.events[i], "name_en")]]

\* What one name contributes to best_dist when a name is skipped as soon as
\* its length differs from the query's by the threshold.
NameDist_SkipAtThreshold(kw, threshold, name) ==
  LET nl == Lower(name)
      far == IF Len(nl) > Len(kw) THEN Len(nl) - Len(kw) >= threshold
             ELSE Len(kw) - Len(nl) >= threshold
  IN  IF name = <<>> THEN -1
      ELSE IF Contains(nl, kw) \/ Contains(kw, nl) THEN 0
      ELSE IF far THEN -1
      ELSE IF EditDistance(kw, nl) <= threshold THEN EditDistance(kw, nl)
      ELSE -1

\* What one name contributes to best_dist: 0 when the name holds the query
\* or the query the name, its edit distance when that is within the
\* threshold, and -1 for nothing.
NameDist(kw, threshold, name) ==
  LET nl == Lower(name)
      far == IF Len(nl) > Len(kw) THEN Len(nl) - Len(kw) > threshold
             ELSE Len(kw) - Len(nl) > threshold
  IN  IF name = <<>> THEN -1
      ELSE IF Contains(nl, kw) \/ Contains(kw, nl) THEN 0
      ELSE IF far THEN -1
      ELSE IF EditDistance(kw, nl) <= threshold THEN EditDistance(kw, nl)
      ELSE -1
\* best_dist after the loop over [cn, en]; -1 stands for None
BestDist(kw, threshold, e) ==
  LET d1 == NameDist(kw, threshold, e.cn)
      d2 == NameDist(kw, threshold, e.en)
  IN  IF d1 = -1 THEN d2 ELSE IF d2 = -1 THEN d1
      ELSE IF d1 < d2 THEN d1 ELSE d2

\* candidates.sort(key=lambda x: x[0]) left out
SortByDist_AsCollected(cands, threshold) == cands

\* candidates.sort(key=lambda x: x[0]): a stable sort on the distance, which
\* is at most the threshold.
SortByDist(cands, threshold) ==
  Concat([d \in 1..(threshold + 1) |->
            SelectSeq(cands, LAMBDA c : c[1] = d - 1)])

\* The sorted candidates of _fuzzy_suggest, as pairs <<distance, display>>
SuggestCandidates(ctlg, query) ==
  LET kw == Lower(query)
      threshold == IF Len(kw) \div 3 > 1 THEN Len(kw) \div 3 ELSE 1
      entries == SuggestEntries(ctlg)
      scored == [i \in 1..Len(entries) |->
                   <<BestDist(kw, threshold, entries[i]), entries[i]>>]
  IN  IF Len(kw) < 2 THEN <<>>
      ELSE SortByDist(SelectSeq(scored, LAMBDA c : c[1] # -1), threshold)
\* _fuzzy_suggest(query, limit), for a limit that is a count
FuzzySuggest(ctlg, query, limit) ==
  LET kept == Take(SuggestCandidates(ctlg, query), limit)
  IN  [i \in 1..Len(kept) |-> kept[i][2]]
\* def _fuzzy_suggest(self, query, limit=8)
DefaultLimit == 8

\* _not_found_with_suggestions that returns an empty text
NotFoundWithSuggestions_Empty(ctlg, query, entity_type) ==
  Some([kind |-> "empty"])

\* _not_found_with_suggestions: a text, which is never empty
NotFoundWithSuggestions(ctlg, query, entity_type) ==
  Some([kind |-> "not_found", type |-> entity_type, query |-> query,
        suggestions |-> FuzzySuggest(ctlg, query, DefaultLimit)])

\* ---------------------------------------------------------------- lookups
\* kw is in one of the fields of rec, lower-cased
HoldsIn(rec, fields, kw) ==
  \E f \in fields : Contains(Lower(Field(rec, f)), kw)
AnyHolds(recs, fields, kw) ==
  \E i \in 1..Len(recs) : HoldsIn(recs[i], fields, kw)

\* _search_monsters
SearchMonsters(monsters, keyword) ==
  SelectSeq(monsters, LAMBDA r :
    \/ Contains(Lower(r[1]), Lower(keyword))
    \/ HoldsIn(r[2], {"name", "name_zh"}, Lower(keyword))
    \/ AnyHolds(Field(r[2], "skills"), {"name", "name_en"}, Lower(keyword))
    \/ AnyHolds(Field(r[2], "items"), {"name", "name_en"}, Lower(keyword)))
\* _search_items
SearchItems(items, keyword) ==
  SelectSeq(items, LAMBDA it :
    HoldsIn(it, {"name_cn", "name_en", "tags", "hidden_tags", "heroes"},
            Lower(keyword)))
\* _search_skills
SearchSkills(skills, keyword) ==
  SelectSeq(skills, LAMBDA sk :
    HoldsIn(sk, {"name_cn", "name_en", "description_cn", "description_en",
                 "heroes"}, Lower(keyword)))
\* _search_events(keyword), without heroes
SearchEvents(events, keyword) ==
  IF keyword = <<>> THEN events
  ELSE SelectSeq(events, LAMBDA ev :
         \/ HoldsIn(ev, {"name", "name_en"}, Lower(keyword))
         \/ AnyHolds(Field(ev, "choices"),
                     {"name", "name_zh", "description_zh", "description"},
                     Lower(keyword)))

\* The first record one of whose fields, lower-cased, equals kw
FirstNamed(recs, fields, kw) ==
  LET hits == {i \in 1..Len(recs) : \E f \in fields : Lower(Field(recs[i], f)) = kw}
  IN  IF hits = {} THEN None
      ELSE Some(recs[CHOOSE i \in hits : \A j \in hits : i <= j])
\* The exact-match loop that finds nothing
ExactMonster_Never(monsters, query) == None
\* The exact-match loop of cmd_monster: the key as typed, the names
\* lower-cased
ExactMonster(monsters, query) ==
  LET hits == {i \in 1..Len(monsters) :
                 \/ monsters[i][1] = query
                 \/ \E f \in {"name", "name_zh"} :
                      Lower(Field(monsters[i][2], f)) = Lower(query)}
  IN  IF hits = {} THEN None
      ELSE Some(monsters[CHOOSE i \in hits : \A j \in hits : i <= j])

\* f"{cn}({en})"
PairDisplay(cn, en) == cn \o <<"(">> \o en \o <<")">>
\* monster_name(r)
MonsterDisplay(r) ==
  PairDisplay(IF "name_zh" \in DOMAIN r[2] THEN r[2].name_zh ELSE r[1],
              Field(r[2], "name"))

\* if msg: a message that is neither None nor an empty text
Truthy(msg) == msg # None /\ msg[1].kind # "empty"
\* What a handler does with found, msg = _resolve_search(...): it replies
\* msg when there is one and goes on with found, which it reads.
AfterResolve(ret) ==
  IF Truthy(ret.msg) THEN [kind |-> "message", msg |-> ret.msg[1]]
  ELSE IF ret.found = None THEN [kind |-> "raise"]
  ELSE [kind |-> "entity", entity |-> ret.found[1]]

\* cmd_monster and tool_query_monster after _resolve_alias; asked is the
\* text the not-found message names.
LookupMonster(ctlg, query, asked) ==
  LET exact == ExactMonster(ctlg.monsters, query)
      results == SearchMonsters(ctlg.monsters, query)
      names == [i \in 1..Len(results) |-> MonsterDisplay(results[i])]
  IN  IF exact # None THEN [kind |-> "entity", entity |-> exact[1]]
      ELSE AfterResolve(ResolveSearch(results, names, query,
                          NotFoundWithSuggestions(ctlg, asked, "monster")))

\* cmd_skill, cmd_event and their tools after _resolve_alias: recs is the
\* list, results what the search returned, cn and en the two name fields.
LookupNamed(ctlg, recs, results, cn, en, query, asked, entity_type) ==
  LET exact == FirstNamed(recs, {cn, en}, Lower(query))
      names == [i \in 1..Len(results) |->
                  PairDisplay(Field(results[i], cn), Field(results[i], en))]
  IN  IF exact # None THEN [kind |-> "entity", entity |-> exact[1]]
      ELSE AfterResolve(ResolveSearch(results, names, query,
                          NotFoundWithSuggestions(ctlg, asked, entity_type)))

\* The loop of cmd_item over the items the monsters drop: the first one
\* named kw, with its monster; mitem['name'] is read without a default.
DropNamed(monsters, kw) ==
  LET drops == Concat([i \in 1..Len(monsters) |->
                 [j \in 1..Len(Field(monsters[i][2], "items")) |->
                    [monster |-> monsters[i][1], item |-> monsters[i][2].items[j]]]])
      hits == {i \in 1..Len(drops) :
                 \E f \in {"name", "name_en"} : Lower(Field(drops[i].item, f)) = kw}
      first == drops[CHOOSE i \in hits : \A j \in hits : i <= j]
  IN  IF hits = {} THEN None
      ELSE IF "name" \notin DOMAIN first.item THEN Some([kind |-> "raise"])
      ELSE Some([kind |-> "drop", item |-> first.item, monster |-> first.monster])

\* cmd_item and tool_query_item after _resolve_alias; only the command
\* looks among the dropped items.
LookupItem(ctlg, query, asked, drops) ==
  LET exact == FirstNamed(ctlg.items, {"name_cn", "name_en"}, Lower(query))
      results == SearchItems(ctlg.items, query)
      names == [i \in 1..Len(results) |->
                  PairDisplay(Field(results[i], "name_cn"), Field(results[i], "name_en"))]
      ret == ResolveSearch(results, names, query, None)
      drop == IF drops THEN DropNamed(ctlg.monsters, Lower(query)) ELSE None
  IN  IF exact # None THEN [kind |-> "entity", entity |-> exact[1]]
      ELSE IF Truthy(ret.msg) THEN [kind |-> "message", msg |-> ret.msg[1]]
      ELSE IF ret.found # None THEN [kind |-> "entity", entity |-> ret.found[1]]
      ELSE IF drop # None THEN drop[1]
      ELSE [kind |-> "message",
            msg |-> NotFoundWithSuggestions(ctlg, asked, "item")[1]]

\* The texts looked up: none; names in both letter cases; parts of one name
\* and of several; the name of a dropped item and of a monster's skill; an
\* alias; texts no entity holds.
LookupQueries ==
  { <<>>, <<"F", "i">>, <<"f", "i">>, <<"f", "i", "s">>, <<"jian">>,
    <<"S", "w">>, sDooley, <<"E", "m">>, <<"z", "z">>, <<"F", "z">>,
    <<"huo", "ling">>, <<"p", "y", "r", "o">>, <<"ling">>, <<"S", "k">>,
    <<"E", "v">>, kab }

\* _resolve_alias(query), which runs the staleness check first
AliasResolved(query) ==
  ResolveIn(Reloaded(mode, aliases, config, file, aliases_mtime), query)
\* A handler that calls _resolve_alias(query) and replies
Answer(op, query, reply) ==
  /\ ReloadAliasesIfChanged
  /\ out' = [op |-> op, query |-> query, resolved |-> AliasResolved(query),
             reply |-> reply]
  /\ UNCHANGED last
\* A command that was given no text replies how it is used.
Usage(op) ==
  /\ out' = [op |-> op, query |-> <<>>, resolved |-> <<>>,
             reply |-> [kind |-> "usage"]]
  /\ UNCHANGED tok
  /\ StoreUnchanged

CmdMonster ==
  /\ tok.pc = "idle"
  /\ out.op = "none"
  /\ \E query \in LookupQueries :
       IF query = <<>> THEN Usage("cmd_monster")
       ELSE Answer("cmd_monster", query,
                   LookupMonster(catalog, AliasResolved(query), AliasResolved(query)))

CmdItem ==
  /\ tok.pc = "idle"
  /\ out.op = "none"
  /\ \E query \in LookupQueries :
       IF query = <<>> THEN Usage("cmd_item")
       ELSE Answer("cmd_item", query,
                   LookupItem(catalog, AliasResolved(query), AliasResolved(query), TRUE))

CmdSkill ==
  /\ tok.pc = "idle"
  /\ out.op = "none"
  /\ \E query \in LookupQueries :
       IF query = <<>> THEN Usage("cmd_skill")
       ELSE Answer("cmd_skill", query,
                   LookupNamed(catalog, catalog.skills,
                               SearchSkills(catalog.skills, AliasResolved(query)),
                               "name_cn", "name_en", AliasResolved(query),
                               AliasResolved(query), "skill"))

CmdEvent ==
  /\ tok.pc = "idle"
  /\ out.op = "none"
  /\ \E query \in LookupQueries :
       IF query = <<>> THEN Usage("cmd_event")
       ELSE Answer("cmd_event", query,
                   LookupNamed(catalog, catalog.events,
                               SearchEvents(catalog.events, AliasResolved(query)),
                               "name", "name_en", AliasResolved(query),
                               AliasResolved(query), "event"))

ToolQueryItem ==
  /\ tok.pc = "idle"
  /\ out.op = "none"
  /\ \E query \in LookupQueries :
       Answer("tool_item", query,
              LookupItem(catalog, AliasResolved(query), query, FALSE))

ToolQueryMonster ==
  /\ tok.pc = "idle"
  /\ out.op = "none"
  /\ \E query \in LookupQueries :
       Answer("tool_monster", query,
              LookupMonster(catalog, AliasResolved(query), query))

ToolQuerySkill ==
  /\ tok.pc = "idle"
  /\ out.op = "none"
  /\ \E query \in LookupQueries :
       Answer("tool_skill", query,
              LookupNamed(catalog, catalog.skills,
                          SearchSkills(catalog.skills, AliasResolved(query)),
                          "name_cn", "name_en", AliasResolved(query), query, "skill"))

ToolQueryEvent ==
  /\ tok.pc = "idle"
  /\ out.op = "none"
  /\ \E query \in LookupQueries :
       Answer("tool_event", query,
              LookupNamed(catalog, catalog.events,
                          SearchEvents(catalog.events, AliasResolved(query)),
                          "name", "name_en", AliasResolved(query), query, "event"))

\* The texts suggestions are asked for
SuggestQueries ==
  { <<>>, <<"F">>, <<"jian">>, <<"F", "y">>, <<"f", "i", "s">>, <<"z", "z">>,
    <<"p", "y", "r", "o", "s">>, <<"huo", "ling", "wu">>, <<"P", "r", "o">>,
    <<"p", "i", "r", "o", "k", "k">> }
\* A call _fuzzy_suggest(query, limit)
FuzzySuggestCall ==
  /\ tok.pc = "idle"
  /\ out.op = "none"
  /\ \E query \in SuggestQueries, limit \in 0..MaxLimit :
       out' = [op |-> "suggest", query |-> query, limit |-> limit,
               scored |-> Take(SuggestCandidates(catalog, query), limit),
               ret |-> FuzzySuggest(catalog, query, limit)]
  /\ UNCHANGED tok
  /\ StoreUnchanged

\* The strings _edit_distance is called on: all over two letters up to
\* MaxWordLen.
EditLetters == {"a", "b"}
RECURSIVE WordsUpTo(_)
WordsUpTo(n) ==
  IF n = 0 THEN {<<>>}
  ELSE WordsUpTo(n - 1) \cup {Append(w, c) : w \in WordsUpTo(n - 1), c \in EditLetters}

\* _edit_distance(s1, s2) and _edit_distance(s2, s1)
EditDistanceCall ==
  /\ tok.pc = "idle"
  /\ out.op = "none"
  /\ \E s1 \in WordsUpTo(MaxWordLen), s2 \in WordsUpTo(MaxWordLen) :
       out' = [op |-> "edit", s1 |-> s1, s2 |-> s2, ret |-> EditDistance(s1, s2),
               rev |-> EditDistance(s2, s1)]
  /\ UNCHANGED tok
  /\ StoreUnchanged

\* _parse_search_conditions(query), after its call of _smart_tokenize has
\* returned: the loop over the tokens and the join of the keywords.
ParseConditions ==
  /\ tok.pc = "done"
  /\ out.op = "none"
  /\ out' = [op |-> "parse", query |-> tok.query, tokens |-> tok.result,
             conditions |-> ParseSearchConditions(vocab, tok.result)]
  /\ UNCHANGED tok
  /\ StoreUnchanged

\* _filter_items(conditions) on the conditions parsed from the query
FilterItemsCall ==
  /\ out.op = "parse"
  /\ out' = [op |-> "filter", query |-> out.query, conditions |-> out.conditions,
             results |-> FilterItems(catalog.items, out.conditions)]
  /\ UNCHANGED tok
  /\ StoreUnchanged

\* _parse_search_conditions(query) calls _smart_tokenize(query) first. A
\* behaviour follows one call of a query function.
SearchStart(query) ==
  /\ out.op = "none"
  /\ TokStart(query)

LookupNext ==
  \/ \E query \in SearchQueries : SearchStart(query)
  \/ TokToken
  \/ TokLoop
  \/ ParseConditions
  \/ FilterItemsCall
  \/ ResolveSearchCall
  \/ CmdMonster
  \/ CmdItem
  \/ CmdSkill
  \/ CmdEvent
  \/ ToolQueryItem
  \/ ToolQueryMonster
  \/ ToolQuerySkill
  \/ ToolQueryEvent
  \/ FuzzySuggestCall
  \/ EditDistanceCall

SpecLookup == InitLookup /\ [][LookupNext]_vars

\* ------------------------------------------------------------ data update
\* What cmd_update downloads: the five DATA_FILES and the merchants table.
\* Only the first four are read into the catalog the index is built from.
UpdateSources == {"items", "monsters", "skills", "events", "encounters", "merchants"}

\* What the remote repository holds: other items and monsters than the
\* loaded catalog, the same skills and events.
RemoteCatalog == [LoadedCatalog EXCEPT !.items = WideItems, !.monsters = WideMonsters]

\* The data directory after the sources in done were written from the
\* remote copy remote, the other files being kept.
Written(disk, remote, done) ==
  [items |-> IF "items" \in done THEN remote.items ELSE disk.items,
   monsters |-> IF "monsters" \in done THEN remote.monsters ELSE disk.monsters,
   skills |-> IF "skills" \in done THEN remote.skills ELSE disk.skills,
   events |-> IF "events" \in done THEN remote.events ELSE disk.events]

\* cmd_update up to its first suspension: the progress reply is yielded and
\* the session awaited; nothing is counted yet and the data directory holds
\* what was loaded. The handler's locals are kept in out.
UpdateStart ==
  /\ out.op = "none"
  /\ out' = [op |-> "update", at |-> "fetch", success_count |-> 0, disk |-> catalog]
  /\ last' = Record("update", <<>>, "none", <<>>, NoPrev)
  /\ UNCHANGED <<cache, calls, mode, aliases, config, file, aliases_mtime, clock, vocab,
                 vocab_sorted, entity_names, persisted, tok, catalog>>

\* cmd_update putting the downloaded files in place of the loaded catalog as
\* they arrive, the index being rebuilt only at the end.
UpdateFetch_LoadsAsFetched ==
  /\ out.op = "update"
  /\ out.at = "fetch"
  /\ \E remote \in {RemoteCatalog}, done \in SUBSET UpdateSources :
       /\ done # {} => clock < MaxClock
       /\ clock' = IF done # {} THEN clock + 1 ELSE clock
       /\ out' = [op |-> "update", at |-> "load", success_count |-> Cardinality(done),
                  disk |-> Written(out.disk, remote, done)]
       /\ catalog' = Written(out.disk, remote, done)
  /\ UNCHANGED <<cache, calls, mode, aliases, config, file, aliases_mtime, vocab,
                 vocab_sorted, entity_names, last, persisted, tok>>

\* cmd_update's downloads, up to the last response awaited: each source
\* either fails or is written to the data directory and counted. These steps
\* touch the handler's locals and the data files only, which no other handler
\* reads, so they are taken as one step between two suspensions. A file
\* written gets a later modification time, which the clock bounds.
UpdateFetch ==
  /\ out.op = "update"
  /\ out.at = "fetch"
  /\ \E remote \in {RemoteCatalog}, done \in SUBSET UpdateSources :
       /\ done # {} => clock < MaxClock
       /\ clock' = IF done # {} THEN clock + 1 ELSE clock
       /\ out' = [op |-> "update", at |-> "load", success_count |-> Cardinality(done),
                  disk |-> Written(out.disk, remote, done)]
  /\ UNCHANGED <<cache, calls, mode, aliases, config, file, aliases_mtime, vocab,
                 vocab_sorted, entity_names, last, persisted, tok, catalog>>

\* cmd_update after its last download: _load_data() and _build_vocab() when a
\* source succeeded, with no suspension between them, then the summary.
UpdateFinish ==
  /\ out.op = "update"
  /\ out.at = "load"
  /\ IF out.success_count > 0
     THEN /\ catalog' = out.disk
          /\ vocab' = BuildVocabOf(out.disk, aliases)
          /\ vocab_sorted' = VocabSorted(vocab')
          /\ entity_names' = EntityNamesOf(out.disk)
     ELSE UNCHANGED <<catalog, vocab, vocab_sorted, entity_names>>
  /\ out' = NoCall
  /\ UNCHANGED <<cache, calls, mode, aliases, config, file, aliases_mtime, clock, last, persisted,
                 tok>>

\* The alias commands, queries and store edits of the update runs.
UpdateAddInputs == { <<"tag", kab, tX>> }
UpdateExternalInputs == { <<"tag", << <<kab, tY>>, <<kAB, tX>> >> >> }

UpdateNext ==
  \/ \E e \in UpdateAddInputs, outcome \in {"ok", "save_fail", "open_fail", "dump_fail"} :
       CmdAliasAdd(e[1], e[2], e[3], outcome)
  \/ \E e \in UpdateAddInputs : CmdAliasDel(e[1], e[2])
  \/ CmdSearch
  \/ \E e \in UpdateExternalInputs : ExternalEdit(e[1], e[2])
  \/ ExternalBreak("item")
  \/ UpdateStart
  \/ UpdateFetch
  \/ UpdateFinish

SpecUpdate == Init /\ [][UpdateNext]_vars

\* ---------------------------------------------------------- alias command
\* The categories as a command spells them
CategoryWords ==
  << <<"hero", <<"h", "e", "r", "o">>>>, <<"item", <<"i", "t", "e", "m">>>>,
     <<"monster", <<"m", "o", "n", "s", "t", "e", "r">>>>,
     <<"skill", <<"s", "k", "i", "l", "l">>>>, <<"tag", <<"t", "a", "g">>>>,
     <<"tier", <<"t", "i", "e", "r">>>>, <<"size", <<"s", "i", "z", "e">>>> >>
\* cat not in ALIAS_CATEGORIES, for cat = word.lower()
KnownCategory(word) == \E i \in 1..Len(CategoryWords) : CategoryWords[i][2] = Lower(word)
CategoryOf(word) ==
  CategoryWords[CHOOSE i \in 1..Len(CategoryWords) : CategoryWords[i][2] = Lower(word)][1]
wAdd == <<"a", "d", "d">>
wList == <<"l", "i", "s", "t">>
DelWords ==
  { <<"d", "e", "l">>, <<"d", "e", "l", "e", "t", "e">>, <<"r", "m">>,
    <<"r", "e", "m", "o", "v", "e">> }

\* cmd_alias replying with an error or a listing: nothing else is touched.
AliasReply(op, key, reply) ==
  /\ last' = Record(op, key, reply, <<>>, NoPrev)
  /\ UNCHANGED <<cache, calls, mode, aliases, config, file, aliases_mtime, clock, vocab,
                 vocab_sorted, entity_names, persisted, tok, catalog, out>>

\* cmd_alias on parts = query.split(None, 3) of a non-empty query; outcome is
\* what the store write does, if one is made.
CmdAlias(parts, outcome) ==
  LET action == Lower(parts[1])
  IN  IF action = wList
      THEN IF Len(parts) > 1 /\ ~KnownCategory(parts[2])
           THEN AliasReply("list", <<>>, "unknown_category")
           ELSE AliasReply("list", <<>>, "list")
      ELSE IF action = wAdd
      THEN IF Len(parts) < 4 THEN AliasReply("add", <<>>, "usage")
           ELSE IF ~KnownCategory(parts[2])
           THEN AliasReply("add", parts[3], "unknown_category")
           ELSE CmdAliasAdd(CategoryOf(parts[2]), parts[3], parts[4], outcome)
      ELSE IF action \in DelWords
      THEN IF Len(parts) < 3 THEN AliasReply("del", <<>>, "usage")
           ELSE IF ~KnownCategory(parts[2])
           THEN AliasReply("del", parts[3], "unknown_category")
           ELSE CmdAliasDel(CategoryOf(parts[2]), parts[3])
      ELSE AliasReply("none", <<>>, "unknown_action")

\* The alias commands of the runs: adds and deletes of two aliases, in a
\* category spelled in capitals, in an unknown category, with too few
\* arguments, a listing and an unknown action.
wTag == <<"t", "a", "g">>
wHero == <<"H", "E", "R", "O">>
wPet == <<"p", "e", "t">>
AliasCommands ==
  { <<wAdd, wTag, kab, tX>>, <<wAdd, wHero, kab, tY>>, <<wAdd, wPet, kab, tX>>,
    <<wAdd, wTag, kab>>, <<wAdd>>,
    << <<"D", "e", "l">>, wTag, kab>>, << <<"r", "m">>, wHero, kAB>>,
    << <<"d", "e", "l">>, wPet, kab>>, << <<"r", "e", "m", "o", "v", "e">>, wTag>>,
    <<wList>>, <<wList, wPet>>, << <<"s", "e", "t">>, wTag, kab, tX>> }

AliasNext ==
  \/ \E parts \in AliasCommands, outcome \in {"ok", "save_fail", "open_fail", "dump_fail"} :
       CmdAlias(parts, outcome)
  \/ CmdSearch
  \/ \E e \in ExternalInputs : ExternalEdit(e[1], e[2])

SpecAlias == Init /\ [][AliasNext]_vars

\* ------------------------------------------------------------------ builds
DEFAULT_BUILD_COUNT == 5
\* The count the usage reply of cmd_build names as the default
UsageDefaultCount == 3
\* The range an asked or configured count is brought into
MinBuildCount == 1
MaxBuildCount == 10

Digits == <<"0", "1", "2", "3", "4", "5", "6", "7", "8", "9">>
\* str.isdigit() on text of ASCII characters
IsDigit(s) == s # <<>> /\ \A i \in 1..Len(s) : s[i] \in Range(Digits)
\* int(s) for a string of decimal digits
RECURSIVE ParseInt(_)
ParseInt(s) ==
  IF s = <<>> THEN 0
  ELSE ParseInt(SubSeq(s, 1, Len(s) - 1)) * 10
       + (CHOOSE d \in 0..9 : Digits[d + 1] = s[Len(s)])

\* query.rsplit(maxsplit=1): the text before the last run of whitespace and
\* the text after it, or the text alone when it holds no whitespace.
RSplitOnce(s) ==
  LET t == Strip(s)
      spaces == {i \in 1..Len(t) : t[i] = " "}
      at == CHOOSE i \in spaces : \A j \in spaces : j <= i
  IN  IF t = <<>> THEN <<>>
      ELSE IF spaces = {} THEN <<t>>
      ELSE <<RStrip(SubSeq(t, 1, at - 1)), SubSeq(t, at + 1, Len(t))>>

\* max(1, min(n, 10))
ClampCount(n) ==
  IF n > MaxBuildCount THEN MaxBuildCount
  ELSE IF n < MinBuildCount THEN MinBuildCount ELSE n

\* The count cmd_build asks for when the query names none: the configured
\* build_default_count, brought into range, or DEFAULT_BUILD_COUNT.
DefaultCount(md, cfg) ==
  IF md = "config"
  THEN ClampCount(IF cfg["build_default_count"] = None THEN DEFAULT_BUILD_COUNT
                  ELSE cfg["build_default_count"][1])
  ELSE DEFAULT_BUILD_COUNT

\* The count named at the end of the query, if one is.
ExplicitCount(query) ==
  LET parts == RSplitOnce(query)
  IN  IF Len(parts) = 2 /\ IsDigit(parts[2]) THEN Some(ParseInt(parts[2])) ELSE None

\* cmd_build on the extracted query, up to its call of
\* _fetch_builds_combined(search_term, count).
CmdBuild(query) ==
  /\ out.op = "none"
  /\ out' = IF query = <<>>
            THEN [op |-> "build", reply |-> "usage", asked |-> query]
            ELSE [op |-> "build", reply |-> "fetch", asked |-> query,
                  query |-> IF ExplicitCount(query) = None THEN query
                            ELSE Strip(RSplitOnce(query)[1]),
                  count |-> IF ExplicitCount(query) = None
                            THEN DefaultCount(mode, config)
                            ELSE ClampCount(ExplicitCount(query)[1])]
  /\ UNCHANGED <<cache, calls, mode, aliases, config, file, aliases_mtime, clock, vocab,
                 vocab_sorted, entity_names, last, persisted, tok, catalog>>

\* The item names and trailing words of the build queries.
BuildNames == { <<"a", "b">>, <<"a", " ", "b">>, <<"huo", "ling">> }
BuildTails ==
  { <<>>, <<"0">>, <<"1">>, <<"3">>, <<"7">>, <<"1", "0">>, <<"1", "1">>,
    <<"9", "9">>, <<"x">>, <<"1", "x">> }
BuildQueries ==
  { <<>>, <<"5">> }
    \cup {IF t = <<>> THEN n ELSE n \o <<" ">> \o t : n \in BuildNames, t \in BuildTails}
    \cup {n \o <<" ", " ">> \o <<"4">> : n \in BuildNames}
\* build_default_count in the host configuration: not set, or a number
BuildDefaults == {None, Some(0), Some(3), Some(8), Some(12)}

InitBuild ==
  /\ mode \in {"config", "file"}
  /\ \E n \in BuildDefaults :
       /\ mode = "file" => n = None
       /\ config = [c \in Cats \cup {"build_default_count"} |->
                      IF c = "build_default_count" THEN n ELSE DictValue(<<>>)]
  /\ file = AbsentFile
  /\ aliases = EmptyAliases
  /\ aliases_mtime = 0
  /\ clock = 1
  /\ vocab = BuildVocabLoaded(aliases)
  /\ vocab_sorted = VocabSorted(vocab)
  /\ entity_names = EntityNames(Items, Monsters, Skills, Events)
  /\ last = [op |-> "init", key |-> <<>>, reply |-> "none", res |-> <<>>,
             prev |-> NoPrev, afterext |-> FALSE]
  /\ persisted = {}
  /\ tok = IdleTok
  /\ catalog = LoadedCatalog
  /\ out = NoCall
  /\ cache = EmptyCache
  /\ calls = NoCalls

BuildNext == \E query \in BuildQueries : CmdBuild(query)

SpecBuild == InitBuild /\ [][BuildNext]_vars

\* ------------------------------------------------------------------- cache
\* What fetch_fn gives: a list with data, an empty list, or an exception
FetchedData == {<<"v">>, <<"w">>}
Raised == <<"Exception">>
FetchResults == FetchedData \cup {<<>>, Raised}

\* The time to live a key is requested with: CACHE_TTL_NEWS is shorter than
\* CACHE_TTL_BUILDS.
TtlOf(key) == IF key = "news:3" THEN 1 ELSE MaxTtl

\* entry and (now - entry[0]) < ttl
CacheValid(entry, now, ttl) == entry # <<>> /\ now - entry[1] < ttl

\* _cached_request(key, ttl, fetch_fn) up to its await: a valid entry is
\* returned, or fetch_fn() is called and awaited.
RequestStart(c, key, ttl) ==
  /\ calls[c].pc = "idle"
  /\ IF CacheValid(cache[key], clock, ttl)
     THEN /\ calls' = calls
          /\ last' = [op |-> "return", caller |-> c, key |-> key, ttl |-> ttl,
                      now |-> clock, ret |-> cache[key][2], fetched |-> FALSE]
     ELSE /\ calls' = [calls EXCEPT ![c] = [pc |-> "fetching", key |-> key,
                                            ttl |-> ttl, now |-> clock]]
          /\ last' = [op |-> "fetch", caller |-> c, key |-> key, ttl |-> ttl,
                      now |-> clock]
  /\ UNCHANGED <<cache, mode, aliases, config, file, aliases_mtime, clock, vocab,
                 vocab_sorted, entity_names, persisted, tok, catalog, out>>

\* _cached_request storing whatever fetch_fn() returned.
FetchReturn_StoresAll(c, data) ==
  /\ calls[c].pc = "fetching"
  /\ cache' = IF data # Raised
              THEN [cache EXCEPT ![calls[c].key] = <<calls[c].now, data>>]
              ELSE cache
  /\ calls' = [calls EXCEPT ![c] = IdleCall]
  /\ last' = [op |-> "return", caller |-> c, key |-> calls[c].key,
              ttl |-> calls[c].ttl, now |-> calls[c].now, ret |-> data,
              fetched |-> TRUE, at |-> clock]
  /\ UNCHANGED <<mode, aliases, config, file, aliases_mtime, clock, vocab,
                 vocab_sorted, entity_names, persisted, tok, catalog, out>>

\* _cached_request from the return of fetch_fn(): data that is not empty is
\* stored under the time the call began, and data is returned; an exception
\* of fetch_fn leaves the call at once.
FetchReturn(c, data) ==
  /\ calls[c].pc = "fetching"
  /\ cache' = IF data # Raised /\ data # <<>>
              THEN [cache EXCEPT ![calls[c].key] = <<calls[c].now, data>>]
              ELSE cache
  /\ calls' = [calls EXCEPT ![c] = IdleCall]
  /\ last' = [op |-> "return", caller |-> c, key |-> calls[c].key,
              ttl |-> calls[c].ttl, now |-> calls[c].now, ret |-> data,
              fetched |-> TRUE, at |-> clock]
  /\ UNCHANGED <<mode, aliases, config, file, aliases_mtime, clock, vocab,
                 vocab_sorted, entity_names, persisted, tok, catalog, out>>

\* Time passes.
Tick ==
  /\ clock < MaxClock
  /\ clock' = clock + 1
  /\ UNCHANGED <<cache, calls, mode, aliases, config, file, aliases_mtime, vocab,
                 vocab_sorted, entity_names, last, persisted, tok, catalog, out>>

CacheNext ==
  \/ \E c \in Callers, key \in CacheKeys : RequestStart(c, key, TtlOf(key))
  \/ \E c \in Callers, data \in FetchResults : FetchReturn(c, data)
  \/ Tick

InitCache == InitBuild /\ mode = "file"

SpecCache == InitCache /\ [][CacheNext]_vars

\* ----------------------------------------------------------------- runner
\* COMMANDS of the interactive runner: command -> name of the handler method
COMMANDS ==
  << <<<<"/", "b", "z", "h", "e", "l", "p">>, "cmd_help">>,
     <<<<"/", "b", "z", "m", "o", "n", "s", "t", "e", "r">>, "cmd_monster">>,
     <<<<"/", "b", "z", "i", "t", "e", "m">>, "cmd_item">>,
     <<<<"/", "b", "z", "s", "k", "i", "l", "l">>, "cmd_skill">>,
     <<<<"/", "b", "z", "s", "e", "a", "r", "c", "h">>, "cmd_search">>,
     <<<<"/", "b", "z", "l", "i", "s", "t">>, "cmd_list">>,
     <<<<"/", "b", "z", "i", "t", "e", "m", "s">>, "cmd_items_by_tag">>,
     <<<<"/", "b", "z", "t", "i", "e", "r">>, "cmd_items_by_tier">>,
     <<<<"/", "b", "z", "h", "e", "r", "o">>, "cmd_hero">>,
     <<<<"/", "b", "z", "b", "u", "i", "l", "d">>, "cmd_build">> >>
\* The methods of the BazaarPlugin class the runner imports, and of Star
PluginMethods ==
  { "__init__", "initialize", "terminate", "_load_data", "_format_monster_info",
    "_format_item_info", "_search_monsters", "_search_items", "cmd_help",
    "cmd_monster", "cmd_item", "cmd_search", "cmd_list", "cmd_items_by_tag",
    "cmd_items_by_tier" }

\* cmd in COMMANDS, and COMMANDS[cmd]
IsCommand(cmd) == \E i \in 1..Len(COMMANDS) : COMMANDS[i][1] = cmd
MethodOf(cmd) == COMMANDS[CHOOSE i \in 1..Len(COMMANDS) : COMMANDS[i][1] = cmd][2]

\* handle_input(plugin, user_input), up to the call of the handler method:
\* nothing for an empty line, the unknown-command message, the method called
\* with the arguments, or the AttributeError of getattr.
HandleInput(user_input) ==
  LET text == Strip(user_input)
      cmd == Lower(SplitWs(text)[1])
      args == LStrip(Drop(text, Len(cmd)))
  IN  /\ out.op = "none"
      /\ out' = IF text = <<>> THEN [op |-> "runner", outcome |-> "nothing"]
                ELSE IF ~IsCommand(cmd)
                THEN [op |-> "runner", outcome |-> "unknown", cmd |-> cmd]
                ELSE IF MethodOf(cmd) \in PluginMethods
                THEN [op |-> "runner", outcome |-> "called", cmd |-> cmd,
                      method |-> MethodOf(cmd), message_str |-> args]
                ELSE [op |-> "runner", outcome |-> "AttributeError", cmd |-> cmd,
                      method |-> MethodOf(cmd), message_str |-> args]
      /\ UNCHANGED <<cache, calls, mode, aliases, config, file, aliases_mtime, clock,
                     vocab, vocab_sorted, entity_names, last, persisted, tok, catalog>>

\* The lines typed: every command of the table and some other words, alone
\* and with arguments.
RunnerWords ==
  {COMMANDS[i][1] : i \in 1..Len(COMMANDS)}
    \cup { <<"/", "B", "Z", "H", "e", "l", "p">>,
    <<"/", "b", "z", "S", "K", "I", "L", "L">>,
    <<"/", "b", "z", "a", "l", "i", "a", "s">>,
    <<"b", "z", "h", "e", "l", "p">>,
    <<"q", "u", "i", "t">> }
RunnerArgs ==
  { <<>>, <<" ">>, <<" ", "a", "b">>, <<" ", " ", "a", " ", "b">>, <<" ", "huo", "ling">>,
    <<" ", "t", "a", "g", ":", "B", "u", "r", "n">>, <<" ", "5">>, <<" ", "A", "b", " ">>,
    <<" ", "x">>, <<" ", "F", "i">>, <<" ", "1", "0">>, <<" ", "B", "u", "r", "n">> }
RunnerInputs == {<<>>, <<" ">>} \cup {w \o a : w \in RunnerWords, a \in RunnerArgs}

RunnerNext == \E user_input \in RunnerInputs : HandleInput(user_input)

InitRunner == InitBuild /\ mode = "file"

SpecRunner == InitRunner /\ [][RunnerNext]_vars

\* ------------------------------------------------------------------ claims
\* The lookup order of _resolve_alias: item, monster, skill, then hero.
ResolverCats == {"item", "monster", "skill", "hero"}
LookupOrder(al) ==
  LET Of(cat) == [i \in 1..Len(al[cat]) |-> <<cat, al[cat][i][1]>>]
  IN  Of("item") \o Of("monster") \o Of("skill") \o Of("hero")
\* Another alias that case-folds to the same string comes before (cat, key).
Shadowed(al, cat, key) ==
  LET ord == LookupOrder(al)
  IN  \E i, j \in 1..Len(ord) :
        /\ ord[j] = <<cat, key>>
        /\ i < j
        /\ Lower(ord[i][2]) = Lower(key)
\* The query of the last resolve equals the alias of the add right before it,
\* up to letter case and surrounding whitespace.
ResolvedTheAdded ==
  /\ last.op = "resolve"
  /\ last.prev.op = "add"
  /\ Lower(Strip(last.key)) = Lower(last.prev.key)

C2_FailureReported ==
  (last.op \in {"add", "del"} /\ last.prev.op # "none" /\ ~last.prev.saved)
  => last.reply \notin {"added", "updated", "deleted"}

\* The alias map al holds the change of the mutation p.
HoldsChange(al, p) ==
  IF p.op = "add"
  THEN DictHas(al[p.cat], p.key) /\ DictGet(al[p.cat], p.key, <<>>) = p.target
  ELSE ~DictHas(al[p.cat], p.key)

\* C3 as claimed: when the store write of an add or delete fails, the alias
\* map and the vocabulary keep the change, also after the staleness check of
\* the query that follows.
C3_ChangeKept ==
  (last.prev.op \in {"add", "del"} /\ ~last.prev.saved)
  => /\ HoldsChange(aliases, last.prev)
     /\ vocab = BuildVocabLoaded(aliases)

C5_RoundTrip ==
  \A e \in persisted :
    LET al == LoadAliases(mode, config, file)
    IN  DictHas(al[e[1]], e[2]) /\ DictGet(al[e[1]], e[2], <<>>) = e[3]

\* C6 as claimed: the query that follows an external change of the store
\* reloads the aliases and rebuilds the vocabulary before it uses them, so
\* it works on the changed store.
C6_FreshAfterEdit ==
  (last.op \in {"resolve", "search"} /\ last.afterext)
  => /\ aliases = LoadAliases(mode, config, file)
     /\ vocab = BuildVocabLoaded(aliases)
     /\ vocab_sorted = VocabSorted(vocab)
     /\ last.op = "resolve" => last.res = ResolveIn(LoadAliases(mode, config, file), last.key)

\* The categories _build_vocab registers aliases of, in its order.
VocabCats == <<"hero", "tag", "tier", "size">>
\* The aliases of those categories whose lower-cased alias is form, as
\* <<category, target>> pairs in the order _build_vocab meets them.
AliasesOfForm(al, form) ==
  LET Of(cat) ==
        LET hit == SelectSeq(al[cat], LAMBDA e : Lower(e[1]) = form)
        IN  [i \in 1..Len(hit) |-> <<cat, hit[i][2]>>]
  IN  Of(VocabCats[1]) \o Of(VocabCats[2]) \o Of(VocabCats[3]) \o Of(VocabCats[4])
\* The lower-cased, stripped text of the last lookup.
LookedUp == Strip(Lower(tok.query))

\* C7 as claimed: a lookup folds case, and for every alias of category hero,
\* tag, tier or size whose surface form is looked up, the lookup finds that
\* alias's (category, target), whatever else has the same surface form.
C7_AliasAlwaysWins ==
  tok.pc = "lookup"
  => \A i \in 1..Len(AliasesOfForm(aliases, LookedUp)) :
       tok.entry = AliasesOfForm(aliases, LookedUp)[i]

\* C7 amended: a lookup folds case; when aliases of category hero, tag, tier
\* or size have the looked-up surface form, the lookup finds the tier of the
\* built-in tier tables if the form is one of their words, and otherwise the
\* (category, target) of the last such alias in the order hero, tag, tier,
\* size and store order within a category; an entry derived from the catalog
\* never wins over an alias.
C7_LastAliasUnlessTierWord ==
  (tok.pc = "lookup" /\ AliasesOfForm(aliases, LookedUp) # <<>>)
  => tok.entry =
       IF DictHas(FixedTierEntries, LookedUp)
       THEN DictGet(DictSetAll(<<>>, FixedTierEntries), LookedUp, <<>>)
       ELSE AliasesOfForm(aliases, LookedUp)[Len(AliasesOfForm(aliases, LookedUp))]

\* An alias spelled "Burn" is looked up as "burn", a form the catalog's tags
\* define too, and the alias's target is found.
C7_Witness ==
  /\ tok.pc = "lookup"
  /\ tok.query = Lower(sBurn)
  /\ DictHas(aliases["tag"], sBurn)
  /\ DictHas(LoadedItemEntries, Lower(sBurn))
  /\ tok.entry = <<"tag", tX>>

\* The native and English names of the catalog's items, monsters, skills and
\* events, in the catalog's letter case. A name is the text of its field
\* without the whitespace around it; a field left empty names nothing.
CatalogNames ==
  {Strip(f) : f \in
     {Items[i].name_cn : i \in 1..Len(Items)}
       \cup {Items[i].name_en : i \in 1..Len(Items)}
       \cup {Monsters[i][2].name_zh : i \in 1..Len(Monsters)}
       \cup {Monsters[i][2].name : i \in 1..Len(Monsters)}
       \cup {Skills[i].name_cn : i \in 1..Len(Skills)}
       \cup {Skills[i].name_en : i \in 1..Len(Skills)}
       \cup {Events[i].name : i \in 1..Len(Events)}
       \cup {Events[i].name_en : i \in 1..Len(Events)}} \ {<<>>}

\* C8: for every full name n of the catalog, in any letter case,
\* tokenize(n) is the one-token list [n].
C8_NameIsOneToken ==
  (tok.pc = "done" /\ \E n \in CatalogNames : Lower(n) = Lower(tok.query))
  => tok.result = <<tok.query>>

\* A name with a space in it, spelled with capitals, came back whole.
C8_Witness ==
  /\ tok.pc = "done"
  /\ tok.query \in CatalogNames
  /\ tok.query # Lower(tok.query)
  /\ \E i \in 1..Len(tok.query) : tok.query[i] = " "
  /\ tok.result = <<tok.query>>

\* C9 as claimed, for the queries of two characters or more: tokenize
\* returns the whole query as one token when the case-folded query is a known
\* name, is contained in one, or contains one.
C9_NameInsideOrAround ==
  ( /\ tok.pc = "done"
    /\ Len(tok.query) >= 2
    /\ \E n \in entity_names :
         \/ Lower(tok.query) = n
         \/ Contains(n, Lower(tok.query))
         \/ Contains(Lower(tok.query), n) )
  => tok.result = <<tok.query>>

\* C9 amended: tokenize returns the whole query as one token when the
\* case-folded query is a known name, or has two characters or more and is
\* contained in a known name.
C9_NameOrInsideName ==
  ( /\ tok.pc = "done"
    /\ \/ Lower(tok.query) \in entity_names
       \/ /\ Len(tok.query) >= 2
          /\ \E n \in entity_names : Contains(n, Lower(tok.query)) )
  => tok.result = <<tok.query>>

\* A query that is no name, has a space in it and lies inside a name came
\* back whole.
C9_Witness ==
  /\ tok.pc = "done"
  /\ Lower(tok.query) \notin entity_names
  /\ \E i \in 1..Len(tok.query) : tok.query[i] = " "
  /\ \E n \in entity_names : Contains(n, Lower(tok.query))
  /\ tok.result = <<tok.query>>

\* C10 as claimed: a round of the decomposition loop that starts with text
\* remaining either leaves the loop or shortens the remaining text.
C10_RoundConsumes ==
  [][(tok.pc = "loop" /\ tok.remaining # <<>>)
       => (tok'.pc # "loop" \/ Len(tok'.remaining) < Len(tok.remaining))]_vars

\* ------------------------------------------------- claims on the search parser
qCompound == <<"du", "li", "zhong", "xing", "zhuo", "shao">>
\* The vocabulary holds 杜利 as a hero, 中型 as a size and 灼烧 as a tag.
VocabHasTheThree ==
  /\ DictGet(vocab, <<"du", "li">>, <<"none">>)[1] = "hero"
  /\ DictGet(vocab, <<"zhong", "xing">>, <<"none">>)[1] = "size"
  /\ DictGet(vocab, <<"zhuo", "shao">>, <<"none">>)[1] = "tag"
\* The conditions have a hero, a size and a tag and no keyword.
ThreeFacetsNoKeyword(c) ==
  c.heroes # <<>> /\ c.sizes # <<>> /\ c.tags # <<>> /\ c.keyword = <<>>

\* C11 as claimed: whenever the vocabulary holds the hero 杜利, the size 中型
\* and the tag 灼烧, whatever else it holds, the conditions parsed from
\* 杜利中型灼烧 have heroes, sizes and tags and an empty keyword.
C11_ThreeFacetsWhatever ==
  (out.op = "parse" /\ out.query = qCompound /\ VocabHasTheThree)
  => ThreeFacetsNoKeyword(out.conditions)

\* C11 amended: the same, when in addition the query is no entity name and
\* lies inside none, and no vocabulary term of more than two characters
\* starts 杜利中型灼烧 or 中型灼烧.
C11_ThreeFacetsUnlessPreempted ==
  ( /\ out.op = "parse" /\ out.query = qCompound /\ VocabHasTheThree
    /\ ~IsEntityName(entity_names, qCompound)
    /\ \A i \in 1..Len(vocab_sorted) :
         Len(vocab_sorted[i]) > 2
           => /\ ~StartsWith(qCompound, vocab_sorted[i])
              /\ ~StartsWith(Drop(qCompound, 2), vocab_sorted[i]) )
  => ThreeFacetsNoKeyword(out.conditions)

\* 杜利中型灼烧 was parsed into the hero, the size and the tag of the catalog
\* while an alias was stored.
C11_Witness ==
  /\ out.op = "parse" /\ out.query = qCompound
  /\ aliases # EmptyAliases
  /\ out.tokens = << <<"du", "li">>, <<"zhong", "xing">>, <<"zhuo", "shao">> >>
  /\ out.conditions.heroes = << <<"du", "li">> >>
  /\ out.conditions.sizes = << <<"zhong", "xing">> >>
  /\ out.conditions.tags = << <<"zhuo", "shao">> >>
  /\ out.conditions.keyword = <<>>

\* The parts of a query, split at its spaces
QueryParts(q) == Split(q, <<" ">>)
\* The parts of q carry a facet prefix each.
AllPrefixed(q) ==
  \A i \in 1..Len(QueryParts(q)) :
    /\ Contains(QueryParts(q)[i], <<":">>)
    /\ DictHas(FacetPrefixes, Lower(SplitPrefix(QueryParts(q)[i])[1]))
\* The values of the parts of q whose prefix appends to facet, in order
ValuesOf(q, facet) ==
  LET mine == SelectSeq(QueryParts(q), LAMBDA p :
                DictGet(FacetPrefixes, Lower(SplitPrefix(p)[1]), "none") = facet)
  IN  [i \in 1..Len(mine) |-> SplitPrefix(mine[i])[2]]
\* The tier a value names: Bronze for 青铜, 铜 and bronze, and so on
TierNamed(value) ==
  LET l == Lower(value)
  IN  IF l \in {<<"qing", "tong">>, <<"tong">>, Lower(sBronze)} THEN sBronze
      ELSE IF l \in {<<"bai", "yin">>, <<"yin">>, Lower(sSilver)} THEN sSilver
      ELSE IF l \in {<<"huang", "jin">>, <<"jin">>, Lower(sGold)} THEN sGold
      ELSE value

\* C12: the conditions parsed from a query whose tokens all carry a facet
\* prefix hold each value in the list of its prefix, in token order, the
\* tier values replaced by the tier they name, and an empty keyword;
\* "tier:Gold tag:Weapon" gives tiers = [Gold], tags = [Weapon].
C12_PrefixedToFacets ==
  (out.op = "parse" /\ AllPrefixed(out.query))
  => /\ out.conditions.tags = ValuesOf(out.query, "tags")
     /\ out.conditions.heroes = ValuesOf(out.query, "heroes")
     /\ out.conditions.sizes = ValuesOf(out.query, "sizes")
     /\ out.conditions.tiers =
          [i \in 1..Len(ValuesOf(out.query, "tiers")) |->
             TierNamed(ValuesOf(out.query, "tiers")[i])]
     /\ out.conditions.keyword = <<>>
     /\ out.query = qTierGold \o <<" ">> \o qTagWeapon
          => /\ out.conditions.tiers = <<sGold>>
             /\ out.conditions.tags = <<sWeapon>>

\* Three spellings of one tier were parsed into three times Bronze.
C12_Witness ==
  /\ out.op = "parse" /\ AllPrefixed(out.query)
  /\ Len(out.tokens) = 3
  /\ out.conditions.tiers = <<sBronze, sBronze, sBronze>>
  /\ out.conditions.keyword = <<>>

\* The parts of q whose prefix is none of the facet prefixes
Unrecognized(q) ==
  SelectSeq(QueryParts(q), LAMBDA p :
    Contains(p, <<":">>) /\ ~DictHas(FacetPrefixes, Lower(SplitPrefix(p)[1])))

\* C13: a token with a prefix that is none of the facet prefixes goes to the
\* keyword whole, prefix and separator included, and to no facet list: a
\* query of such a token alone gives the token as keyword and empty lists,
\* and among other tokens the facet lists hold nothing of it.
C13_UnknownPrefixIsKeyword ==
  (out.op = "parse" /\ Unrecognized(out.query) # <<>>)
  => /\ \A i \in 1..Len(Unrecognized(out.query)) :
          /\ Contains(out.conditions.keyword, Unrecognized(out.query)[i])
          /\ \A f \in {"tags", "tiers", "heroes", "sizes"} :
               \A j \in 1..Len(out.conditions[f]) :
                 /\ ~Contains(Unrecognized(out.query)[i], out.conditions[f][j])
                 /\ ~Contains(out.conditions[f][j], SplitPrefix(Unrecognized(out.query)[i])[2])
     /\ out.query = qFooBar
          => out.conditions = [keyword |-> qFooBar, tags |-> <<>>, tiers |-> <<>>,
                               heroes |-> <<>>, sizes |-> <<>>]

\* foo:bar stood between a prefixed tag and a vocabulary word and became
\* the keyword.
C13_Witness ==
  /\ out.op = "parse"
  /\ Len(out.tokens) = 3
  /\ out.tokens[2] = qFooBar
  /\ out.conditions.keyword = qFooBar
  /\ out.conditions.tags = <<sBurn, sWeapon>>

\* ------------------------------------------------------ claims on the filter
\* The item satisfies the value listed in the facet.
Satisfies(item, facet, value) ==
  CASE facet = "tags" -> Contains(ItemTags(item), Lower(value))
    [] facet = "tiers" -> CleanTier(Field(item, "starting_tier")) = value
    [] facet = "heroes" -> Contains(Lower(Field(item, "heroes")), Lower(value))
    [] facet = "sizes" -> Contains(Lower(Field(item, "size")), Lower(value))
SatisfiesAll(item, c, facet) ==
  \A i \in 1..Len(c[facet]) : Satisfies(item, facet, c[facet][i])
SatisfiesSome(item, c, facet) ==
  c[facet] = <<>> \/ \E i \in 1..Len(c[facet]) : Satisfies(item, facet, c[facet][i])

\* C14 as claimed: an item the filter returns satisfies every value listed
\* in every facet: tags, tiers, heroes and sizes.
C14_EveryFacetConjunctive ==
  out.op = "filter"
  => \A i \in 1..Len(out.results) :
       \A f \in {"tags", "tiers", "heroes", "sizes"} :
         SatisfiesAll(out.results[i], out.conditions, f)

\* C14 amended: the filter returns, in catalog order, the items that
\* satisfy every value listed in tags and in heroes, one of the values
\* listed in tiers when there are any, one of the values listed in sizes
\* when there are any, and hold the keyword.
C14_TagsHeroesAllTiersSizesAny ==
  out.op = "filter"
  => out.results =
       SelectSeq(catalog.items, LAMBDA it :
         /\ SatisfiesAll(it, out.conditions, "tags")
         /\ SatisfiesAll(it, out.conditions, "heroes")
         /\ SatisfiesSome(it, out.conditions, "tiers")
         /\ SatisfiesSome(it, out.conditions, "sizes")
         /\ Contains(ItemSearchable(it), Lower(out.conditions.keyword)))

\* Two sizes were listed and the filter returned an item of each, while an
\* item was left out.
C14_Witness ==
  /\ out.op = "filter"
  /\ Len(out.conditions.sizes) = 2
  /\ \E i, j \in 1..Len(out.results) :
       /\ Satisfies(out.results[i], "sizes", out.conditions.sizes[1])
       /\ ~Satisfies(out.results[i], "sizes", out.conditions.sizes[2])
       /\ Satisfies(out.results[j], "sizes", out.conditions.sizes[2])

\* ---------------------------------------------------- claims on the resolver
\* C15: _resolve_search on no result returns no match and the not-found
\* message it was given; on one result it returns that result and no
\* message, whatever the query.
C15_NoneOrTheOne ==
  out.op = "resolve"
  => /\ Len(out.results) = 0
          => out.ret = [found |-> None, msg |-> out.not_found_msg]
     /\ Len(out.results) = 1
          => out.ret = [found |-> Some(out.results[1]), msg |-> None]

\* The one result was returned although its name does not hold the query.
C15_Witness ==
  /\ out.op = "resolve"
  /\ Len(out.results) = 1
  /\ out.query # <<>>
  /\ ~Contains(Lower(out.names[1]), Lower(out.query))
  /\ out.ret.found = Some(out.results[1])
  /\ out.ret.msg = None

\* C16 as claimed, the names compared as they are spelled: with more than
\* one candidate, when exactly one candidate's name holds the query, that
\* candidate is returned without a message.
C16_OneHolderAsSpelled ==
  ( /\ out.op = "resolve"
    /\ Len(out.results) > 1
    /\ Len(NarrowedIndices_AsSpelled(out.names, out.query)) = 1 )
  => out.ret = [found |-> Some(out.results[NarrowedIndices_AsSpelled(out.names, out.query)[1]]),
                msg |-> None]

\* C16 amended: with more than one candidate, when exactly one candidate's
\* name holds the query, both lower-cased, that candidate is returned
\* without a message.
C16_OneHolderCaseFolded ==
  ( /\ out.op = "resolve"
    /\ Len(out.results) > 1
    /\ Cardinality({i \in 1..Len(out.names) :
                      Contains(Lower(out.names[i]), Lower(out.query))}) = 1 )
  => \E i \in 1..Len(out.names) :
       /\ Contains(Lower(out.names[i]), Lower(out.query))
       /\ out.ret = [found |-> Some(out.results[i]), msg |-> None]

\* Among more than fifteen candidates the one whose name holds the query in
\* another letter case was returned.
C16_Witness ==
  /\ out.op = "resolve"
  /\ Len(out.results) > MaxListed
  /\ \E i \in 1..Len(out.names) :
       /\ out.ret.found = Some(out.results[i])
       /\ ~Contains(out.names[i], out.query)
       /\ Contains(Lower(out.names[i]), Lower(out.query))
  /\ out.ret.msg = None

\* The candidates whose name holds the query, both lower-cased, in order
NarrowedNames ==
  SelectSeq(out.names, LAMBDA n : Contains(Lower(n), Lower(out.query)))

\* C17: with more than one candidate, when the narrowing by name does not
\* leave exactly one, no match is returned and the message lists at most
\* 15 names: the first of the narrowed candidates when there are any, the
\* first of all candidates otherwise.
C17_ListsAtMostFifteen ==
  ( /\ out.op = "resolve"
    /\ Len(out.results) > 1
    /\ Len(NarrowedNames) # 1 )
  => /\ out.ret.found = None
     /\ out.ret.msg # None
     /\ Len(out.ret.msg[1].names) <= 15
     /\ LET from == IF NarrowedNames # <<>> THEN NarrowedNames ELSE out.names
        IN  /\ Len(out.ret.msg[1].names) <= Len(from)
            /\ out.ret.msg[1].names = SubSeq(from, 1, Len(out.ret.msg[1].names))
            /\ Len(from) <= 15 => out.ret.msg[1].names = from

\* More than fifteen candidates were narrowed to more than fifteen and
\* fewer than all, and fifteen of those were listed.
C17_Witness ==
  /\ out.op = "resolve"
  /\ Len(NarrowedNames) > 15
  /\ Len(NarrowedNames) < Len(out.names)
  /\ out.ret.found = None
  /\ Len(out.ret.msg[1].names) = 15
  /\ out.ret.msg[1].total = Len(NarrowedNames)

\* ----------------------------------------------------- claims on the lookups
\* What the handler of out.op looks up
KindOfOp ==
  CASE out.op \in {"cmd_monster", "tool_monster"} -> "monster"
    [] out.op \in {"cmd_item", "tool_item"} -> "item"
    [] out.op \in {"cmd_skill", "tool_skill"} -> "skill"
    [] out.op \in {"cmd_event", "tool_event"} -> "event"
\* The entities of that kind, in catalog order
KindList ==
  CASE KindOfOp = "monster" -> catalog.monsters
    [] KindOfOp = "item" -> catalog.items
    [] KindOfOp = "skill" -> catalog.skills
    [] KindOfOp = "event" -> catalog.events
\* The native and the English name of an entity of that kind
NativeName(e) ==
  CASE KindOfOp = "monster" -> Field(e[2], "name_zh")
    [] KindOfOp = "event" -> Field(e, "name")
    [] OTHER -> Field(e, "name_cn")
EnglishName(e) ==
  IF KindOfOp = "monster" THEN Field(e[2], "name") ELSE Field(e, "name_en")
\* The name a disambiguation list shows for an entity
ShownName(e) ==
  IF KindOfOp = "monster" THEN MonsterDisplay(e)
  ELSE PairDisplay(NativeName(e), EnglishName(e))
\* The positions of the entities one of whose names equals q, lower-cased
NamedLike(q) ==
  {i \in 1..Len(KindList) :
     Lower(q) \in {Lower(NativeName(KindList[i])), Lower(EnglishName(KindList[i]))}}
\* The substring hits for q among the entities of that kind
HitsFor(q) ==
  CASE KindOfOp = "monster" -> SearchMonsters(catalog.monsters, q)
    [] KindOfOp = "item" -> SearchItems(catalog.items, q)
    [] KindOfOp = "skill" -> SearchSkills(catalog.skills, q)
    [] KindOfOp = "event" -> SearchEvents(catalog.events, q)
RepliedEntity(e) == out.reply.kind = "entity" /\ out.reply.entity = e
RepliedList == out.reply.kind = "message" /\ out.reply.msg.kind = "multiple"
RepliedNotFound == out.reply.kind = "message" /\ out.reply.msg.kind = "not_found"
\* The monster or item command was given a text.
MonsterOrItemCmd == out.op \in {"cmd_monster", "cmd_item"} /\ out.query # <<>>

AcceptedAs(q) ==
  NamedLike(q) \cup {i \in 1..Len(KindList) :
                       KindOfOp = "monster" /\ KindList[i][1] = q}
\* The hits whose shown name holds q, letter case aside
NarrowedHits(q) ==
  SelectSeq(HitsFor(q), LAMBDA e : Contains(Lower(ShownName(e)), Lower(q)))
\* A monster drops an item whose name or English name is q, lower-cased
Dropped(q) ==
  \E i \in 1..Len(catalog.monsters) :
    \E j \in 1..Len(Field(catalog.monsters[i][2], "items")) :
      Lower(q) \in {Lower(Field(catalog.monsters[i][2].items[j], "name")),
                    Lower(Field(catalog.monsters[i][2].items[j], "name_en"))}

LookupOps ==
  {"cmd_monster", "cmd_item", "cmd_skill", "cmd_event",
   "tool_monster", "tool_item", "tool_skill", "tool_event"}
\* The handler had no candidate: no entity accepted by the exact-match
\* loop, no substring hit and, in the item command, no dropped item.
NoCandidate ==
  /\ AcceptedAs(out.resolved) = {}
  /\ HitsFor(out.resolved) = <<>>
  /\ ~(out.op = "cmd_item" /\ Dropped(out.resolved))

\* C19: every lookup handler replies, for every query and alias state: it
\* replies not-found when it has no candidate, and it never goes on to read
\* an entity it did not find.
C19_AlwaysReplies ==
  out.op \in LookupOps
  => /\ out.reply.kind \in {"entity", "message", "drop", "usage"}
     /\ out.reply.kind = "message"
          => out.reply.msg.kind \in {"multiple", "not_found"}
     /\ (out.reply.kind # "usage" /\ NoCandidate) => RepliedNotFound

\* A tool without a candidate for the text an alias stands for replied
\* not-found with suggestions.
C19_Witness ==
  /\ out.op \in LookupOps
  /\ out.resolved # out.query
  /\ NoCandidate
  /\ RepliedNotFound
  /\ out.reply.msg.suggestions # <<>>

\* ------------------------------------------------- claims on the suggestions
\* C20: _fuzzy_suggest(query, limit) returns nothing for a query of fewer
\* than two characters; otherwise it returns at most limit entries, in the
\* order of their distances, smallest first, and no entry it leaves out is
\* nearer than one it returns.
C20_ShortNoneElseNearestFirst ==
  out.op = "suggest"
  => /\ Len(out.query) < 2 => out.ret = <<>>
     /\ Len(out.ret) <= out.limit
     /\ out.ret = [i \in 1..Len(out.scored) |-> out.scored[i][2]]
     /\ \A i, j \in 1..Len(out.scored) :
          i < j => out.scored[i][1] <= out.scored[j][1]
     /\ \A i \in 1..Len(SuggestEntries(catalog)) :
          LET e == SuggestEntries(catalog)[i]
              d == BestDist(Lower(out.query),
                            IF Len(out.query) \div 3 > 1
                            THEN Len(out.query) \div 3 ELSE 1, e)
          IN  (Len(out.query) >= 2 /\ d # -1)
              => \/ \E k \in 1..Len(out.scored) : out.scored[k] = <<d, e>>
                 \/ /\ Len(out.scored) = out.limit
                    /\ \A k \in 1..Len(out.scored) : out.scored[k][1] <= d

\* With a limit of one, the entry returned is an event at distance 0 that
\* comes after an item at distance 1 in the catalog.
C20_Witness ==
  /\ out.op = "suggest"
  /\ out.limit = 1
  /\ Len(out.ret) = 1
  /\ out.ret[1].type = "event"
  /\ out.scored[1][1] = 0
  /\ \E i \in 1..Len(catalog.items) :
       NameDist(Lower(out.query), 1, catalog.items[i].name_en) = 1

\* The Levenshtein distance: the fewest insertions, deletions and
\* substitutions of one character that turn a into b.
RECURSIVE Levenshtein(_, _)
Levenshtein(a, b) ==
  IF a = <<>> THEN Len(b)
  ELSE IF b = <<>> THEN Len(a)
  ELSE LET del == Levenshtein(Tail(a), b) + 1
           ins == Levenshtein(a, Tail(b)) + 1
           sub == Levenshtein(Tail(a), Tail(b)) + (IF Head(a) = Head(b) THEN 0 ELSE 1)
       IN  IF del <= ins /\ del <= sub THEN del
           ELSE IF ins <= sub THEN ins ELSE sub
\* max(1, len(query) // 3) of the query suggestions were asked for
ThresholdOfQuery ==
  IF Len(out.query) \div 3 > 1 THEN Len(out.query) \div 3 ELSE 1
\* The name is within reach of the query: it holds the query, the query
\* holds it, or their Levenshtein distance is at most the threshold.
WithinReach(name) ==
  /\ name # <<>>
  /\ \/ Contains(Lower(name), Lower(out.query))
     \/ Contains(Lower(out.query), Lower(name))
     \/ Levenshtein(Lower(out.query), Lower(name)) <= ThresholdOfQuery

\* C21: for a query of two characters or more, the candidates of
\* _fuzzy_suggest are exactly the entities one of whose non-empty names is
\* within reach of the query; skipping the names whose length differs by
\* more than the threshold drops none of them.
C21_CandidatesAreThoseWithinReach ==
  (out.op = "suggest" /\ Len(out.query) >= 2)
  => \A i \in 1..Len(SuggestEntries(catalog)) :
       LET e == SuggestEntries(catalog)[i]
       IN  (\E k \in 1..Len(SuggestCandidates(catalog, out.query)) :
              SuggestCandidates(catalog, out.query)[k][2] = e)
           <=> (WithinReach(e.cn) \/ WithinReach(e.en))

\* A name one character longer than the query, which neither holds the
\* other, was kept at distance 1 while a name farther in length was skipped.
C21_Witness ==
  /\ out.op = "suggest"
  /\ \E k \in 1..Len(out.scored) :
       /\ out.scored[k][1] = ThresholdOfQuery
       /\ Len(out.scored[k][2].en) = Len(out.query) + ThresholdOfQuery
       /\ ~Contains(Lower(out.scored[k][2].en), Lower(out.query))
  /\ \E i \in 1..Len(SuggestEntries(catalog)) :
       /\ Len(SuggestEntries(catalog)[i].en) > Len(out.query) + ThresholdOfQuery
       /\ ~WithinReach(SuggestEntries(catalog)[i].en)

\* The orders in which a Python dict can hold the entries of d
Orderings(d) == {p \in [1..Len(d) -> Range(d)] : Range(p) = Range(d)}

\* C22: whenever a handler is suspended, the vocabulary map, its
\* length-sorted key list and the entity-name set are those _build_vocab
\* builds from the loaded catalog and one alias map, which holds the entries
\* of the in-memory alias map; alias adds and deletes, hot reloads, store
\* edits and a data update in progress never leave a part of the index from
\* another catalog or alias map. (Catalog records are well formed, so that
\* _build_vocab does not raise between its assignments.)
C22_IndexOfOneSnapshot ==
  /\ vocab_sorted = VocabSorted(vocab)
  /\ entity_names = EntityNamesOf(catalog)
  /\ \E c \in Cats : \E p \in Orderings(aliases[c]) :
       vocab = BuildVocabOf(catalog, [aliases EXCEPT ![c] = p])

\* An update has written its downloads and not loaded them yet, and an
\* alias was added since this update began.
C22_Witness ==
  /\ out.op = "update"
  /\ out.at = "load"
  /\ out.success_count > 0
  /\ out.disk # catalog
  /\ last.op = "add"
  /\ NumAliases(aliases) > 0

\* ------------------------------------------------------ claims on the builds
\* C23: a build query with no count at its end and no host configuration
\* asks for the 3 builds the usage reply names as the default; a count at the
\* end of the query is brought into 1..10.
C23_DefaultThreeExplicitClamped ==
  (out.op = "build" /\ out.reply = "fetch")
  => /\ (ExplicitCount(out.asked) = None /\ mode = "file")
          => out.count = UsageDefaultCount
     /\ ExplicitCount(out.asked) # None
          => /\ out.count \in MinBuildCount..MaxBuildCount
             /\ ExplicitCount(out.asked)[1] \in MinBuildCount..MaxBuildCount
                  => out.count = ExplicitCount(out.asked)[1]
             /\ ExplicitCount(out.asked)[1] > MaxBuildCount => out.count = MaxBuildCount
             /\ ExplicitCount(out.asked)[1] < MinBuildCount => out.count = MinBuildCount

\* ------------------------------------------------ claims on the alias command
\* The error replies of cmd_alias to an add or a delete
Rejections == {"not_found", "unknown_category", "usage"}

\* C24: a delete of an alias that does not exist, and an add or delete with an
\* unknown category or too few arguments, replies with an error and leaves
\* the in-memory alias map, the vocabulary with its sorted keys and entity
\* names, and the persisted store as they were: nothing is written.
C24_RejectedLeavesAll ==
  [][(last'.op \in {"add", "del"} /\ last'.reply \in Rejections)
       => UNCHANGED <<aliases, vocab, vocab_sorted, entity_names, config, file,
                      aliases_mtime, clock, persisted>>]_vars

\* A delete in an unknown category was refused while the file store held
\* aliases.
C24_Witness ==
  /\ last.op = "del"
  /\ last.reply = "unknown_category"
  /\ NumAliases(aliases) > 0
  /\ mode = "file"
  /\ file.kind = "json"

\* The aliases a load of the store (md, cfg, f) finds, other than (cat, key)
StoredOthers(md, cfg, f, cat, key) ==
  {e \in UNION {{<<c, LoadAliases(md, cfg, f)[c][i][1], LoadAliases(md, cfg, f)[c][i][2]>> :
                   i \in 1..Len(LoadAliases(md, cfg, f)[c])} : c \in Cats} :
     ~(e[1] = cat /\ e[2] = key)}

\* C27: an alias add or delete that was carried out changes only its own
\* (category, alias) key of the persisted store: every other alias the store
\* held before it, one written from outside and not reloaded yet included,
\* is in the store afterwards with the same target.
C27_OthersKept ==
  [][(last'.op \in {"add", "del"} /\ last'.reply \in {"added", "updated", "deleted"})
       => StoredOthers(mode, config, file, last'.prev.cat, last'.prev.key)
            \subseteq StoredOthers(mode, config', file', last'.prev.cat, last'.prev.key)]_vars

\* ----------------------------------------------- claims on the edit distance
\* C25: _edit_distance(s1, s2) is the Levenshtein distance of s1 and s2, for
\* all strings over two letters up to MaxWordLen; it is the same in both
\* orders of its arguments, and 0 exactly when the strings are equal.
C25_EditDistanceIsLevenshtein ==
  out.op = "edit"
  => /\ out.ret = Levenshtein(out.s1, out.s2)
     /\ out.ret = out.rev
     /\ out.ret = 0 <=> out.s1 = out.s2

\* The shorter string came first, and the distance took more than the
\* insertions that make up the difference in length.
C25_Witness ==
  /\ out.op = "edit"
  /\ out.s1 # <<>>
  /\ Len(out.s1) < Len(out.s2)
  /\ out.ret > Len(out.s2) - Len(out.s1)
  /\ out.ret < Len(out.s2)

\* --------------------------------------------------- claims on the tokenizer
\* The token the while loop of _smart_tokenize is working on
TokenInLoop == SplitWs(tok.query)[Len(SplitWs(tok.query)) - Len(tok.tokens)]
\* What the while loop, on leaving, added to result
PiecesEmitted == SubSeq(tok'.result, Len(tok.result) + 1, Len(tok'.result))

\* C26: when the while loop of _smart_tokenize ends for a token, the pieces
\* it adds to the result are all non-empty and, put together in order, are
\* the lower-cased token.
C26_PiecesMakeTheToken ==
  [][(tok.pc = "loop" /\ tok'.pc = "tokens")
       => /\ \A i \in 1..Len(PiecesEmitted) : PiecesEmitted[i] # <<>>
          /\ Concat(PiecesEmitted) = Lower(TokenInLoop)]_vars

\* A query of one token was taken apart into three pieces or more, one of
\* them text between vocabulary terms.
C26_Witness ==
  /\ tok.pc = "tokens"
  /\ tok.tokens = <<>>
  /\ Len(SplitWs(tok.query)) = 1
  /\ Len(tok.result) >= 3
  /\ \E i \in 1..Len(tok.result) : ~DictHas(vocab, tok.result[i])
  /\ \E i \in 1..Len(tok.result) : DictHas(vocab, tok.result[i])

\* -------------------------------------------------------- claims on the cache
\* The step is the beginning of a _cached_request call
RequestBegins ==
  \/ last'.op = "fetch"
  \/ last'.op = "return" /\ ~last'.fetched
\* The step is the return of fetch_fn() in a call, which then ends
FetchEnds == \E c \in Callers : calls[c].pc = "fetching" /\ calls'[c].pc = "idle"
\* The last thing that happened was a call ending with what it fetched
AfterFetch == last.op = "return" /\ last.fetched

\* C28 as stated: after a fetch that gave data, a request for the same key
\* less than ttl after it is answered with that data and without a fetch;
\* after an empty or failed fetch the next request for the key fetches again.
C28_FreshSinceFetched ==
  [][(AfterFetch /\ RequestBegins /\ last'.key = last.key)
       => /\ (last.ret \in FetchedData /\ last'.now - last.at < last'.ttl)
               => (last'.op = "return" /\ last'.ret = last.ret)
          /\ last.ret \notin FetchedData => last'.op = "fetch"]_vars

\* C28, with the time counted from where the code counts it: a fetch result
\* is stored only when it has data, under the time at which its call began;
\* an empty or failed fetch leaves the cache as it was; and after a fetch
\* that gave data, a request for the same key that begins less than ttl after
\* the beginning of the call that fetched is answered with that data and
\* without a fetch; after an empty or failed fetch the next request for the
\* key fetches again unless the cache holds an entry of another call that is
\* still valid.
C28_FreshSinceRequested ==
  [][/\ FetchEnds
          => cache' = IF last'.ret \in FetchedData
                      THEN [cache EXCEPT ![last'.key] = <<last'.now, last'.ret>>]
                      ELSE cache
     /\ (AfterFetch /\ last.ret \in FetchedData /\ RequestBegins
           /\ last'.key = last.key)
          => IF last'.now - last.now < last'.ttl
             THEN last'.op = "return" /\ last'.ret = last.ret
             ELSE last'.op = "fetch"
     /\ (AfterFetch /\ last.ret \notin FetchedData /\ RequestBegins
           /\ last'.key = last.key /\ ~CacheValid(cache[last.key], clock, last'.ttl))
          => last'.op = "fetch"]_vars

\* A request was answered from the cache at a later time than the one the
\* entry is stored under, the fetch of the entry having taken time.
C28_Witness ==
  /\ last.op = "return"
  /\ ~last.fetched
  /\ last.ret = cache[last.key][2]
  /\ last.now > cache[last.key][1]
  /\ last.now - cache[last.key][1] < last.ttl

\* C29: of the calls of _cached_request that are running at one time for one
\* key, at most one has invoked fetch_fn and is waiting for it.
C29_OneFetchPerKey ==
  \A c1 \in Callers, c2 \in Callers :
    (c1 # c2 /\ calls[c1].pc = "fetching" /\ calls[c2].pc = "fetching")
      => calls[c1].key # calls[c2].key

\* ------------------------------------------------------- claims on the runner
\* C30: a line whose first word is a command of the COMMANDS table gets the
\* handler method of that command called, which the plugin class has; any
\* other first word gets the unknown-command message.
C30_EveryCommandHasHandler ==
  (out.op = "runner" /\ out.outcome # "nothing")
  => IF IsCommand(out.cmd)
     THEN out.outcome = "called" /\ out.method = MethodOf(out.cmd)
     ELSE out.outcome = "unknown"

====
